---- MODULE Spec2Model ----
(***************************************************************************)
(* Yantra: the asynchronous execution backbone.                            *)
(*                                                                         *)
(* Three kinds of process share a relational store (tables compilers and   *)
(* submissions) and a broker with two lists (job_queue, build_queue):      *)
(*   - API requests (controllers/*.py): each request is a sequence of      *)
(*     store transactions and broker pushes; requests run concurrently     *)
(*     with each other and with the workers;                               *)
(*   - workers (worker/worker.py): a single-threaded loop per process.     *)
(* A step of the model is one store transaction, one broker command or one *)
(* container-runtime invocation.  An UPDATE writes only the columns the    *)
(* handler assigned (SQLAlchemy unit of work, read committed).             *)
(***************************************************************************)
EXTENDS Integers, Sequences, FiniteSets, TLC

\* ------------------------------------------------------------ bounds
\* API requests issued in one behaviour.
MaxRequests == 3
\* Largest value of the store's clock (func.now()).
MaxClock == 2

\* Runtime ids used by requests, and the processes.
Ids == {"py"}
Slots == {1, 2}
Workers == {1, 2}

\* ------------------------------------------------------------ values
Null == <<>>
Some(v) == <<v>>
IsNull(o) == o = <<>>
Val(o) == o[1]

Dockerfiles == {"FROM a", "FROM b"}
RunCommands == {<<"python", "-">>, <<"sh">>}
Codes == {"print(1)"}

\* json.dumps / json.loads: the text carries the value, marked as text.
JsonDumps(v) == <<"json", v>>
JsonLoads(t) == t[2]

\* dict.get(key): None when the key is absent.
Get(d, k) == IF k \in DOMAIN d THEN Some(d[k]) ELSE Null

\* Mutant: the tag is left without its ":latest".
ImageTagBare(id) == <<"yantra-", id>>
\* f"yantra-{compiler_req.id}:latest"
ImageTag(id) == <<"yantra-", id, ":latest">>

VARIABLES
    compilers,     \* table compilers: a set of rows
    submissions,   \* table submissions: a set of rows
    job_queue,     \* broker list job_queue (index 1 is the head, LPUSH side)
    build_queue,   \* broker list build_queue
    images,        \* the container runtime's images: a set of [tag, content]
    api,           \* per request slot: the request in flight
    last,          \* the response of the request that returned last
    wk,            \* per worker: position in the loop and its locals
    now,           \* the store's clock
    nreq,          \* requests issued so far
    njobs,         \* job ids generated so far (uuid4 is fresh)
    disk,          \* the API host's file system under EXECUTOR_JOBS_DIR: a set of paths
    san,           \* a call of the file name helpers: its argument and what it returned
    templates,     \* table dockerfile_templates: a set of rows
    seed           \* a run of the catalog seeder: its position and locals

vars == <<compilers, submissions, job_queue, build_queue, images, api, last, wk, now, nreq, njobs,
          disk, san, templates, seed>>

\* No call of a file name helper is being looked at; no seeder is running.
NoCall == [fn |-> "none", filename |-> <<>>, ret |-> Null]
EmptyResults == [added |-> <<>>, skipped |-> <<>>, updated |-> <<>>, errors |-> <<>>]
NotSeeding ==
    [pc |-> "idle", i |-> 0, pending |-> {}, results |-> EmptyResults, returned |-> <<>>]

\* ------------------------------------------------------------ store
\* db.query(Compiler).filter(Compiler.id == id).first()
HasCompiler(id) == \E r \in compilers : r.id = id
CompilerRow(id) == CHOOSE r \in compilers : r.id = id

\* db.query(Submission).filter(Submission.job_id == job_id).first()
HasSubmission(j) == \E r \in submissions : r.job_id = j
SubmissionRow(j) == CHOOSE r \in submissions : r.job_id = j

\* UPDATE ... WHERE id = r.id
ReplaceRow(table, old, new) == (table \ {old}) \cup {new}

\* ------------------------------------------------------------ broker
\* Mutant: the payload is pushed at the end the workers pop from.
PushAtTail(q, p) == q \o <<p>>
\* LPUSH pushes at the head, RPOP pops at the tail.
LPush(q, p) == <<p>> \o q
RPopValue(q) == q[Len(q)]
\* Mutant: the payload is read and left in the list.
RPopKeep(q) == q
RPopRest(q) == SubSeq(q, 1, Len(q) - 1)

\* ------------------------------------------------------------ requests
Idle == [pc |-> "idle", op |-> "none", id |-> "", arg |-> Null, aux |-> Null, up |-> Null]
Free(s) == api[s].pc = "idle"
NoResponse == [op |-> "none", id |-> "", arg |-> Null, st |-> "", body |-> Null]

\* The request of slot s goes on to its next step, or returns with a status.
Continue(s, pc, aux) ==
    /\ api' = [api EXCEPT ![s].pc = pc, ![s].aux = aux]
    /\ last' = last
Respond(s, status, body) ==
    /\ api' = [api EXCEPT ![s] = Idle]
    /\ last' = [op |-> api[s].op, id |-> api[s].id, arg |-> api[s].arg, st |-> status,
                body |-> body]
Return(s, status) == Respond(s, status, Null)

\* CreateCompilerRequest (models/schemas.py): defaults for the optional fields.
CreateReq(id, df) ==
    [id |-> id, name |-> "n1", dockerfile_content |-> df,
     run_command |-> <<"python", "-">>, version |-> Null,
     memory_limit |-> "512m", cpu_limit |-> "1", timeout_seconds |-> 10]
CreateReqs == {CreateReq(id, df) : id \in Ids, df \in Dockerfiles}

\* UpdateCompilerRequest: every field optional, None by default.
EmptyPatch ==
    [name |-> Null, dockerfile_content |-> Null, run_command |-> Null,
     version |-> Null, memory_limit |-> Null, cpu_limit |-> Null,
     timeout_seconds |-> Null, enabled |-> Null]
Patches ==
    {EmptyPatch,
     [EmptyPatch EXCEPT !.name = Some("n2")],
     [EmptyPatch EXCEPT !.enabled = Some(FALSE)],
     [EmptyPatch EXCEPT !.dockerfile_content = Some("FROM b")],
     [EmptyPatch EXCEPT !.run_command = Some(<<"sh">>)],
     [EmptyPatch EXCEPT !.memory_limit = Some("256m"), !.timeout_seconds = Some(2)]}

\* A new request is accepted on a free slot.
Begin(s, op, id, arg) ==
    /\ Free(s)
    /\ \A s2 \in Slots : s2 < s => ~Free(s2)
    /\ nreq < MaxRequests
    /\ nreq' = nreq + 1
    /\ api' = [api EXCEPT ![s] = [pc |-> "read", op |-> op, id |-> id, arg |-> arg,
                                  aux |-> Null, up |-> Null]]
    /\ UNCHANGED <<compilers, submissions, job_queue, build_queue, images, last, wk, now, njobs, disk, san, templates, seed>>

At(s, op, pc) == api[s].op = op /\ api[s].pc = pc

\* ------------------------------------------------------------ create
\* Mutant: the new row is marked ready.
NewCompilerReady(req, t) ==
    [id |-> req.id, name |-> req.name, dockerfile_content |-> req.dockerfile_content,
     run_command |-> JsonDumps(req.run_command), image_tag |-> ImageTag(req.id),
     version |-> req.version, memory_limit |-> req.memory_limit,
     cpu_limit |-> req.cpu_limit, timeout_seconds |-> req.timeout_seconds,
     build_status |-> "ready", enabled |-> TRUE,
     build_error |-> Null, build_logs |-> Null, updated_at |-> t, built_at |-> Null]

\* Compiler(id=..., build_status="pending", enabled=True); the columns the
\* constructor leaves out are NULL, updated_at has server_default now().
NewCompiler(req, t) ==
    [id |-> req.id, name |-> req.name, dockerfile_content |-> req.dockerfile_content,
     run_command |-> JsonDumps(req.run_command), image_tag |-> ImageTag(req.id),
     version |-> req.version, memory_limit |-> req.memory_limit,
     cpu_limit |-> req.cpu_limit, timeout_seconds |-> req.timeout_seconds,
     build_status |-> "pending", enabled |-> TRUE,
     build_error |-> Null, build_logs |-> Null, updated_at |-> t, built_at |-> Null]

BuildPayload(id) == JsonDumps([compiler_id |-> id, action |-> "build"])

\* existing = db.query(...).first(); if existing: raise HTTPException(400)
CreateRead(s) ==
    /\ At(s, "create", "read")
    /\ IF HasCompiler(api[s].id)
       THEN Return(s, "DuplicateId")
       ELSE Continue(s, "commit", Null)
    /\ UNCHANGED <<compilers, submissions, job_queue, build_queue, images, wk, now, nreq, njobs, disk, san, templates, seed>>

\* Mutant: id is not a key of the table.
InsertCompilerNoKey(row) == compilers \cup {row}
\* The INSERT a commit of the new row issues: id is the primary key.
InsertCompiler(row) ==
    IF HasCompiler(row.id) THEN compilers ELSE compilers \cup {row}

\* Mutant: the new row is added to the session and never committed.
CreateUncommitted(s) ==
    /\ At(s, "create", "commit")
    /\ Continue(s, "push", Some(NewCompiler(api[s].arg, now)))
    /\ UNCHANGED <<compilers, submissions, job_queue, build_queue, images, wk, now, nreq, njobs, disk, san, templates, seed>>

\* db.add(new_compiler); db.commit(); db.refresh(new_compiler)
CreateCommit(s) ==
    /\ At(s, "create", "commit")
    /\ compilers' = InsertCompiler(NewCompiler(api[s].arg, now))
    /\ IF HasCompiler(api[s].id)
       THEN Return(s, "IntegrityError")
       ELSE Continue(s, "push", Some(NewCompiler(api[s].arg, now)))
    /\ UNCHANGED <<submissions, job_queue, build_queue, images, wk, now, nreq, njobs, disk, san, templates, seed>>

\* redis_conn.lpush(REDIS_BUILD_QUEUE_NAME, json.dumps(build_payload));
\* return _to_response(new_compiler): the row as refreshed after the commit.
CreatePush(s) ==
    /\ At(s, "create", "push")
    /\ build_queue' = LPush(build_queue, BuildPayload(api[s].id))
    /\ Respond(s, "ok", api[s].aux)
    /\ UNCHANGED <<compilers, submissions, job_queue, images, wk, now, nreq, njobs, disk, san, templates, seed>>

\* ------------------------------------------------------------ update
\* Mutant: every field that is set asks for a rebuild.
RebuildOnAnyField(u) == \E f \in DOMAIN u : ~IsNull(u[f])
\* rebuild_needed: set by the dockerfile_content and run_command branches.
RebuildNeeded(u) == ~IsNull(u.dockerfile_content) \/ ~IsNull(u.run_command)

\* Mutant: the check for an empty update is missing.
NoFieldsUnchecked(u) == FALSE
\* all(getattr(update, field) is None for field in update.model_fields)
NoFields(u) == \A f \in DOMAIN u : IsNull(u[f])

\* "if update.<field> is not None: compiler.<field> = update.<field>", field by field.
ApplyFields(row, u) ==
    [row EXCEPT
       !.name = IF IsNull(u.name) THEN @ ELSE Val(u.name),
       !.dockerfile_content = IF IsNull(u.dockerfile_content) THEN @ ELSE Val(u.dockerfile_content),
       !.run_command = IF IsNull(u.run_command) THEN @ ELSE JsonDumps(Val(u.run_command)),
       !.version = IF IsNull(u.version) THEN @ ELSE u.version,
       !.memory_limit = IF IsNull(u.memory_limit) THEN @ ELSE Val(u.memory_limit),
       !.cpu_limit = IF IsNull(u.cpu_limit) THEN @ ELSE Val(u.cpu_limit),
       !.timeout_seconds = IF IsNull(u.timeout_seconds) THEN @ ELSE Val(u.timeout_seconds),
       !.enabled = IF IsNull(u.enabled) THEN @ ELSE Val(u.enabled)]

\* Mutant: built_at is not cleared.
ResetBuildKeepBuiltAt(row, u) ==
    IF ~IsNull(u.dockerfile_content) \/ ~IsNull(u.run_command)
    THEN [row EXCEPT !.build_status = "pending", !.build_error = Null]
    ELSE row

\* "if rebuild_needed: build_status = pending; build_error = None; built_at = None"
ResetBuild(row, u) ==
    IF RebuildNeeded(u)
    THEN [row EXCEPT !.build_status = "pending", !.build_error = Null, !.built_at = Null]
    ELSE row

\* The row the commit of update_compiler writes.
UpdatedRow(row, u, t) == ResetBuild([ApplyFields(row, u) EXCEPT !.updated_at = t], u)

\* Query the row (404 when missing); the all-None check raises before any commit.
UpdateRead(s) ==
    /\ At(s, "update", "read")
    /\ IF ~HasCompiler(api[s].id) THEN Return(s, "NotFound")
       ELSE IF NoFields(api[s].arg) THEN Return(s, "NothingToUpdate")
       ELSE Continue(s, "commit", Null)
    /\ UNCHANGED <<compilers, submissions, job_queue, build_queue, images, wk, now, nreq, njobs, disk, san, templates, seed>>

\* db.commit(); db.refresh(compiler): the commit and the refresh that follows it are
\* one step.  The UPDATE of a row deleted since the read matches nothing
\* (StaleDataError).  Without a rebuild the handler returns here.
UpdateCommit(s) ==
    /\ At(s, "update", "commit")
    /\ IF HasCompiler(api[s].id)
       THEN /\ compilers' = ReplaceRow(compilers, CompilerRow(api[s].id),
                                       UpdatedRow(CompilerRow(api[s].id), api[s].arg, now))
            /\ IF RebuildNeeded(api[s].arg)
               THEN Continue(s, "push", Some(UpdatedRow(CompilerRow(api[s].id), api[s].arg, now)))
               ELSE Respond(s, "ok", Some(UpdatedRow(CompilerRow(api[s].id), api[s].arg, now)))
       ELSE /\ compilers' = compilers
            /\ Return(s, "StaleData")
    /\ UNCHANGED <<submissions, job_queue, build_queue, images, wk, now, nreq, njobs, disk, san, templates, seed>>

\* "if rebuild_needed: redis_conn.lpush(...)"; return _to_response(compiler)
UpdatePush(s) ==
    /\ At(s, "update", "push")
    /\ build_queue' = LPush(build_queue, BuildPayload(api[s].id))
    /\ Respond(s, "ok", api[s].aux)
    /\ UNCHANGED <<compilers, submissions, job_queue, images, wk, now, nreq, njobs, disk, san, templates, seed>>

\* ------------------------------------------------------------ trigger_build
TriggeredRow(row, t) ==
    [row EXCEPT !.build_status = "pending", !.build_error = Null, !.updated_at = t]

TriggerRead(s) ==
    /\ At(s, "trigger_build", "read")
    /\ IF ~HasCompiler(api[s].id) THEN Return(s, "NotFound")
       ELSE Continue(s, "commit", Null)
    /\ UNCHANGED <<compilers, submissions, job_queue, build_queue, images, wk, now, nreq, njobs, disk, san, templates, seed>>

TriggerCommit(s) ==
    /\ At(s, "trigger_build", "commit")
    /\ IF HasCompiler(api[s].id)
       THEN /\ compilers' = ReplaceRow(compilers, CompilerRow(api[s].id),
                                       TriggeredRow(CompilerRow(api[s].id), now))
            /\ Continue(s, "push", api[s].aux)
       ELSE /\ compilers' = compilers
            /\ Return(s, "StaleData")
    /\ UNCHANGED <<submissions, job_queue, build_queue, images, wk, now, nreq, njobs, disk, san, templates, seed>>

\* Mutant: the build is not queued.
TriggerNoPush(s) ==
    /\ At(s, "trigger_build", "push")
    /\ Return(s, "ok")
    /\ UNCHANGED <<compilers, submissions, job_queue, build_queue, images, wk, now, nreq, njobs, disk, san, templates, seed>>

TriggerPush(s) ==
    /\ At(s, "trigger_build", "push")
    /\ build_queue' = LPush(build_queue, BuildPayload(api[s].id))
    /\ Return(s, "ok")
    /\ UNCHANGED <<compilers, submissions, job_queue, images, wk, now, nreq, njobs, disk, san, templates, seed>>

\* ------------------------------------------------------------ get_build_logs
\* "build_logs": compiler.build_logs or "No build logs available"
GetBuildLogs(row) ==
    [compiler_id |-> row.id, build_status |-> row.build_status,
     build_logs |-> IF IsNull(row.build_logs) \/ row.build_logs = Some("")
                    THEN "No build logs available"
                    ELSE Val(row.build_logs),
     build_error |-> row.build_error]

\* ------------------------------------------------------------ delete
CleanupPayload(id, tag) ==
    JsonDumps([compiler_id |-> id, image_tag |-> tag, action |-> "cleanup"])

\* submissions.language is a foreign key to compilers.id (no ON DELETE action).
Referenced(id) == \E r \in submissions : r.language = id

\* image_tag = compiler.image_tag
DeleteRead(s) ==
    /\ At(s, "delete", "read")
    /\ IF ~HasCompiler(api[s].id) THEN Return(s, "NotFound")
       ELSE Continue(s, "commit", Some(CompilerRow(api[s].id).image_tag))
    /\ UNCHANGED <<compilers, submissions, job_queue, build_queue, images, wk, now, nreq, njobs, disk, san, templates, seed>>

\* db.delete(compiler); db.commit().  A DELETE that matches no row only warns.
DeleteCommit(s) ==
    /\ At(s, "delete", "commit")
    /\ IF Referenced(api[s].id) /\ HasCompiler(api[s].id)
       THEN /\ compilers' = compilers
            /\ Return(s, "IntegrityError")
       ELSE /\ compilers' = {r \in compilers : r.id # api[s].id}
            /\ Continue(s, "push", api[s].aux)
    /\ UNCHANGED <<submissions, job_queue, build_queue, images, wk, now, nreq, njobs, disk, san, templates, seed>>

DeletePush(s) ==
    /\ At(s, "delete", "push")
    /\ build_queue' = LPush(build_queue, CleanupPayload(api[s].id, Val(api[s].aux)))
    /\ Return(s, "ok")
    /\ UNCHANGED <<compilers, submissions, job_queue, images, wk, now, nreq, njobs, disk, san, templates, seed>>

\* ------------------------------------------------------------ submit
\* Mutant: build_status is looked at before enabled.
SubmitCheckSwapped(id) ==
    IF ~HasCompiler(id) THEN "LanguageUnknown"
    ELSE IF CompilerRow(id).build_status # "ready" THEN "LanguageNotReady"
    ELSE IF ~CompilerRow(id).enabled THEN "LanguageDisabled"
    ELSE "ok"

\* The three checks of submit_code, in the order of the code.
SubmitCheck(id) ==
    IF ~HasCompiler(id) THEN "LanguageUnknown"
    ELSE IF ~CompilerRow(id).enabled THEN "LanguageDisabled"
    ELSE IF CompilerRow(id).build_status # "ready" THEN "LanguageNotReady"
    ELSE "ok"

\* Submission(job_id=..., status="PENDING", uploaded_files=..., files_directory=...):
\* the other columns are NULL.
NewSubmission(j, code, language, uploaded_files, files_directory) ==
    [job_id |-> j, code |-> code, language |-> language, status |-> "PENDING",
     output_stdout |-> Null, output_stderr |-> Null, uploaded_files |-> uploaded_files,
     files_directory |-> files_directory, completed_at |-> Null]

JobPayload(j, code, language) ==
    JsonDumps([job_id |-> j, code |-> code, language |-> language])

\* job_id = str(uuid.uuid4()), then the language checks, then "if files and
\* len(files) > 0" (files = None and files = [] are both the empty sequence).
SubmitRead(s) ==
    /\ At(s, "submit", "read")
    /\ njobs' = njobs + 1
    /\ IF SubmitCheck(api[s].id) = "ok"
       THEN Continue(s, IF Len(api[s].arg.files) > 0 THEN "stage" ELSE "commit",
                     Some(njobs + 1))
       ELSE Return(s, SubmitCheck(api[s].id))
    /\ UNCHANGED <<compilers, submissions, job_queue, build_queue, images, wk, now, nreq, disk, san, templates, seed>>

\* ------------------------------------------------------------ file names
\* A file name is a sequence of characters.  str.isalnum() holds of the letters and
\* digits of every script, not of ASCII alone: "U+00E9" stands for the one
\* character e with acute accent.
Uppers == <<"A", "B", "C", "D", "E", "F", "G", "H", "I", "J", "K", "L", "M",
            "N", "O", "P", "Q", "R", "S", "T", "U", "V", "W", "X", "Y", "Z">>
Lowers == <<"a", "b", "c", "d", "e", "f", "g", "h", "i", "j", "k", "l", "m",
            "n", "o", "p", "q", "r", "s", "t", "u", "v", "w", "x", "y", "z">>
Digits == {"0", "1", "2", "3", "4", "5", "6", "7", "8", "9"}
IsAlnum(c) ==
    \/ \E i \in 1..26 : c = Uppers[i] \/ c = Lowers[i]
    \/ c \in Digits
    \/ c = "U+00E9"
Lower(s) ==
    [i \in 1..Len(s) |->
        IF \E k \in 1..26 : s[i] = Uppers[k]
        THEN Lowers[CHOOSE k \in 1..26 : s[i] = Uppers[k]]
        ELSE s[i]]

\* config.py: ALLOWED_EXTENSIONS
ALLOWED_EXTENSIONS ==
    {<<".", "t", "x", "t">>, <<".", "j", "s", "o", "n">>, <<".", "c", "s", "v">>,
     <<".", "x", "m", "l">>, <<".", "y", "a", "m", "l">>, <<".", "y", "m", "l">>,
     <<".", "m", "d">>, <<".", "d", "a", "t">>, <<".", "l", "o", "g">>,
     <<".", "t", "s", "v">>, <<".", "i", "n", "i">>, <<".", "c", "o", "n", "f">>,
     <<".", "p", "r", "o", "p", "e", "r", "t", "i", "e", "s">>, <<".", "s", "q", "l">>,
     <<".", "h", "t", "m", "l">>, <<".", "c", "s", "s">>, <<".", "j", "s">>}

\* The last position of character c in s, 0 when there is none (str.rfind + 1).
RFind(s, c) ==
    IF \E i \in 1..Len(s) : s[i] = c
    THEN CHOOSE i \in 1..Len(s) : s[i] = c /\ \A j \in (i + 1)..Len(s) : s[j] # c
    ELSE 0

\* os.path.basename: what follows the last "/".
Basename(p) == SubSeq(p, RFind(p, "/") + 1, Len(p))

\* pathlib.Path(p): the components between the "/", the empty ones and "." left
\* out; .name is the last of them, "" when there is none.
RECURSIVE Split(_)
Split(p) ==
    IF \A i \in 1..Len(p) : p[i] # "/"
    THEN <<p>>
    ELSE LET i == CHOOSE k \in 1..Len(p) : p[k] = "/" /\ \A j \in 1..(k - 1) : p[j] # "/"
         IN  <<SubSeq(p, 1, i - 1)>> \o Split(SubSeq(p, i + 1, Len(p)))
Parts(p) == SelectSeq(Split(p), LAMBDA c : c # <<>> /\ c # <<".">>)
PathName(p) == IF Parts(p) = <<>> THEN <<>> ELSE Parts(p)[Len(Parts(p))]

\* Path.suffix: from the last "." of the name, unless that "." is the first or the
\* last character of the name or there is none.
Suffix(p) ==
    LET name == PathName(p)
        i == RFind(name, ".")
    IN  IF 1 < i /\ i < Len(name) THEN SubSeq(name, i, Len(name)) ELSE <<>>

\* _validate_file_extension
ValidateFileExtension(filename) == Lower(Suffix(filename)) \in ALLOWED_EXTENSIONS

\* uuid.uuid4().hex[:8]
UuidHex == {<<"0", "0", "0", "0", "0", "0", "0", "0">>,
            <<"1", "a", "2", "b", "3", "c", "4", "d">>}
Generated(hex) == <<"f", "i", "l", "e", "_">> \o hex

\* Mutant: the name is not reduced to its last component.
SanitizeWholeName(filename, hex) ==
    LET safe == [i \in 1..Len(filename) |->
                    IF IsAlnum(filename[i]) \/ filename[i] \in {".", "-", "_"}
                    THEN filename[i] ELSE "_"]
    IN  IF safe = <<>> \/ safe = <<".">> THEN Generated(hex) ELSE safe

\* _sanitize_filename, hex being what uuid4 gives when it is called.
SanitizeFilename(filename, hex) ==
    LET base == Basename(filename)
        safe == [i \in 1..Len(base) |->
                    IF IsAlnum(base[i]) \/ base[i] \in {".", "-", "_"}
                    THEN base[i] ELSE "_"]
    IN  IF safe = <<>> \/ safe = <<".">> THEN Generated(hex) ELSE safe

\* The file names a client declares: every name of up to MaxNameLen characters
\* over NameChars, and the name of the traversal example.
MaxNameLen == 5
Filenames ==
    LET NameChars == {"a", "J", "j", "s", ".", "/", "$", "U+00E9"}
        EtcPasswd == <<".", ".", "/", "e", "t", "c", "/", "p", "a", "s", "s", "w", "d">>
    IN  UNION {[1..n -> NameChars] : n \in 0..MaxNameLen} \cup {EtcPasswd}

\* A call of _sanitize_filename or of _validate_file_extension on san.filename.
Sanitizes ==
    /\ san.fn = "none"
    /\ \E hex \in UuidHex :
         san' = [san EXCEPT !.fn = "_sanitize_filename",
                            !.ret = Some(SanitizeFilename(san.filename, hex))]
    /\ UNCHANGED <<compilers, submissions, job_queue, build_queue, images, api, last, wk, now, nreq, njobs, disk, templates, seed>>
Validates ==
    /\ san.fn = "none"
    /\ san' = [san EXCEPT !.fn = "_validate_file_extension",
                          !.ret = Some(ValidateFileExtension(san.filename))]
    /\ UNCHANGED <<compilers, submissions, job_queue, build_queue, images, api, last, wk, now, nreq, njobs, disk, templates, seed>>

\* ------------------------------------------------------------ file staging
\* config.py
MAX_UPLOAD_SIZE == 25 * 1024 * 1024
MAX_FILES_PER_SUBMISSION == 10
EXECUTOR_JOBS_DIR == "/tmp/executor_jobs"

\* job_dir = os.path.join(EXECUTOR_JOBS_DIR, job_id); a path is its components.
JobDir(j) == <<EXECUTOR_JOBS_DIR, j>>
FilePath(j, name) == <<EXECUTOR_JOBS_DIR, j, name>>

\* with open(file_path, "wb") as f: f.write(content).  The disk holds a directory
\* as its path and a file as its path followed by the length of its content; a
\* file that is already at the path is truncated and written anew.
WriteFile(d, j, name, size) ==
    {p \in d : ~(Len(p) = 4 /\ p[2] = j /\ p[3] = name)} \cup {FilePath(j, name) \o <<size>>}

\* Mutant: the clean-up leaves the directory.
RmtreeKeeps(d, dir) == d

\* shutil.rmtree(job_dir)
Rmtree(d, dir) == {p \in d : ~(p[1] = dir[1] /\ p[2] = dir[2])}

\* Mutant: a total that reaches the limit is refused.
OverLimitInclusive(total) == total >= MAX_UPLOAD_SIZE

\* "if total_size > MAX_UPLOAD_SIZE"
OverLimit(total) == total > MAX_UPLOAD_SIZE

\* The locals of _save_uploaded_files, and what submit_code makes of its result.
Files(s) == api[s].arg.files
Upload(s) == Val(api[s].up)
UploadedFilesMetadata(s) ==
    IF IsNull(api[s].up) THEN Null ELSE Some(JsonDumps(Upload(s).meta))
FilesDirectory(s) ==
    IF IsNull(api[s].up) THEN Null ELSE Some(JobDir(Val(api[s].aux)))

\* "except HTTPException" and "except Exception": remove the directory, raise.
StageFailed(s, status) ==
    /\ disk' = Rmtree(disk, JobDir(Val(api[s].aux)))
    /\ Return(s, status)

\* The count check and os.makedirs(job_dir, exist_ok=True).
StageOpen(s) ==
    /\ At(s, "submit", "stage")
    /\ IF Len(Files(s)) > MAX_FILES_PER_SUBMISSION
       THEN /\ Return(s, "TooManyFiles")
            /\ disk' = disk
       ELSE /\ disk' = disk \cup {JobDir(Val(api[s].aux))}
            /\ api' = [api EXCEPT ![s].pc = "stage_file",
                                   ![s].up = Some([total |-> 0, meta |-> <<>>])]
            /\ last' = last
    /\ UNCHANGED <<compilers, submissions, job_queue, build_queue, images, wk, now, nreq, njobs, san, templates, seed>>

\* One turn of "for upload_file in files", or the return after the last one.
StageFile(s) ==
    /\ At(s, "submit", "stage_file")
    /\ LET i == Len(Upload(s).meta) + 1
       IN  IF i > Len(Files(s))
           THEN /\ api' = [api EXCEPT ![s].pc = "commit"]
                /\ last' = last
                /\ disk' = disk
           ELSE LET f == Files(s)[i]
                    total == Upload(s).total + f.size
                IN  IF f.size = 0 THEN StageFailed(s, "EmptyFile")
                    ELSE IF OverLimit(total) THEN StageFailed(s, "SizeLimitExceeded")
                    ELSE IF ~ValidateFileExtension(f.filename)
                    THEN StageFailed(s, "ExtensionNotAllowed")
                    ELSE \E hex \in UuidHex :
                           LET safe == SanitizeFilename(f.filename, hex)
                           IN  /\ disk' = WriteFile(disk, Val(api[s].aux), safe, f.size)
                               /\ api' = [api EXCEPT ![s].up =
                                            Some([total |-> total,
                                                  meta |-> Append(Upload(s).meta,
                                                             [filename |-> safe,
                                                              size |-> f.size,
                                                              mime_type |-> f.content_type])])]
                               /\ last' = last
    /\ UNCHANGED <<compilers, submissions, job_queue, build_queue, images, wk, now, nreq, njobs, san, templates, seed>>

\* Reading the upload or writing the file raises (OSError): "except Exception".
StageFileFails(s) ==
    /\ At(s, "submit", "stage_file")
    /\ Len(Upload(s).meta) < Len(Files(s))
    /\ StageFailed(s, "SaveFailed")
    /\ UNCHANGED <<compilers, submissions, job_queue, build_queue, images, wk, now, nreq, njobs, san, templates, seed>>

\* Mutant: the row is added to the session and never committed.
SubmitUncommitted(s) ==
    /\ At(s, "submit", "commit")
    /\ Continue(s, "push", api[s].aux)
    /\ UNCHANGED <<compilers, submissions, job_queue, build_queue, images, wk, now, nreq, njobs, disk, san, templates, seed>>

\* db.add(new_submission); db.commit(): the foreign key needs the runtime row.
SubmitCommit(s) ==
    /\ At(s, "submit", "commit")
    /\ IF HasCompiler(api[s].id)
       THEN /\ submissions' = submissions \cup
                {NewSubmission(Val(api[s].aux), api[s].arg.code, api[s].id,
                               UploadedFilesMetadata(s), FilesDirectory(s))}
            /\ Continue(s, "push", api[s].aux)
       ELSE /\ submissions' = submissions
            /\ Return(s, "IntegrityError")
    /\ UNCHANGED <<compilers, job_queue, build_queue, images, wk, now, nreq, njobs, disk, san, templates, seed>>

\* Mutant: the job is answered and never queued.
SubmitNoPush(s) ==
    /\ At(s, "submit", "push")
    /\ Return(s, "ok")
    /\ UNCHANGED <<compilers, submissions, job_queue, build_queue, images, wk, now, nreq, njobs, disk, san, templates, seed>>

\* Mutant: the payload is pushed twice.
SubmitPushTwice(s) ==
    /\ At(s, "submit", "push")
    /\ job_queue' = LPush(LPush(job_queue, JobPayload(Val(api[s].aux), api[s].arg.code, api[s].id)),
                          JobPayload(Val(api[s].aux), api[s].arg.code, api[s].id))
    /\ Return(s, "ok")
    /\ UNCHANGED <<compilers, submissions, build_queue, images, wk, now, nreq, njobs, disk, san, templates, seed>>

\* redis_conn.lpush(REDIS_QUEUE_NAME, json.dumps(job_payload)); return the job_id
SubmitPush(s) ==
    /\ At(s, "submit", "push")
    /\ job_queue' = LPush(job_queue, JobPayload(Val(api[s].aux), api[s].arg.code, api[s].id))
    /\ Return(s, "ok")
    /\ UNCHANGED <<compilers, submissions, build_queue, images, wk, now, nreq, njobs, disk, san, templates, seed>>

\* ------------------------------------------------------------ worker loop
\* main(): process_job_queue(), then process_build_queue(), for ever.
Fresh == [pc |-> "job_pop", p |-> Null, cfg |-> Null, cmd |-> Null, res |-> Null]
Goto(w, pc) == wk' = [wk EXCEPT ![w].pc = pc]

\* job_data = REDIS_CONN.rpop(REDIS_QUEUE_NAME); job = json.loads(job_data)
JobPop(w) ==
    /\ wk[w].pc = "job_pop"
    /\ IF Len(job_queue) = 0
       THEN /\ Goto(w, "build_pop")
            /\ job_queue' = job_queue
       ELSE /\ wk' = [wk EXCEPT ![w].pc = "run_start",
                                ![w].p = Some(JsonLoads(RPopValue(job_queue)))]
            /\ job_queue' = RPopRest(job_queue)
    /\ UNCHANGED <<compilers, submissions, build_queue, images, api, last, now, nreq, njobs, disk, san, templates, seed>>

\* ------------------------------------------------------------ run_job
JobId(w) == Val(Get(Val(wk[w].p), "job_id"))
Language(w) == Val(Get(Val(wk[w].p), "language"))

\* The status a started job is given.
StartedStatus == "RUNNING"

\* 1. "if submission: submission.status = 'RUNNING'"
RunStart(w) ==
    /\ wk[w].pc = "run_start"
    /\ submissions' =
         IF HasSubmission(JobId(w))
         THEN ReplaceRow(submissions, SubmissionRow(JobId(w)),
                         [SubmissionRow(JobId(w)) EXCEPT !.status = StartedStatus])
         ELSE submissions
    /\ Goto(w, "run_config")
    /\ UNCHANGED <<compilers, job_queue, build_queue, images, api, last, now, nreq, njobs, disk, san, templates, seed>>

\* Mutant: the row is looked up by its id alone.
CompilerConfigById(language) ==
    IF \E r \in compilers : r.id = language
    THEN LET c == CHOOSE r \in compilers : r.id = language
         IN  Some([image_tag |-> c.image_tag, run_command |-> JsonLoads(c.run_command),
                   memory_limit |-> c.memory_limit, cpu_limit |-> c.cpu_limit,
                   timeout_seconds |-> c.timeout_seconds])
    ELSE Null

\* get_compiler_config(language): the row filtered by enabled and build_status.
CompilerConfig(language) ==
    IF \E r \in compilers : r.id = language /\ r.enabled /\ r.build_status = "ready"
    THEN LET c == CHOOSE r \in compilers :
                    r.id = language /\ r.enabled /\ r.build_status = "ready"
         IN  Some([image_tag |-> c.image_tag, run_command |-> JsonLoads(c.run_command),
                   memory_limit |-> c.memory_limit, cpu_limit |-> c.cpu_limit,
                   timeout_seconds |-> c.timeout_seconds])
    ELSE Null

NotAvailable(language) ==
    <<"Compiler for language '", language, "' is not available or not ready">>

\* 2. compiler_config = get_compiler_config(language); raise when there is none.
RunConfig(w) ==
    /\ wk[w].pc = "run_config"
    /\ wk' = [wk EXCEPT ![w] =
                IF IsNull(CompilerConfig(Language(w)))
                THEN [@ EXCEPT !.pc = "run_write",
                               !.res = Some([kind |-> "error", stdout |-> Null,
                                             stderr |-> Some(NotAvailable(Language(w)))])]
                ELSE [@ EXCEPT !.pc = "run_exec", !.cfg = CompilerConfig(Language(w))]]
    /\ UNCHANGED <<compilers, submissions, job_queue, build_queue, images, api, last, now, nreq, njobs, disk, san, templates, seed>>

HasImage(tag) == \E i \in images : i.tag = tag

\* What subprocess.run(docker_command, timeout=...) can do: return with the
\* captured streams (whatever the exit status), exceed the timeout, or raise
\* (str(e), like the other messages the worker composes, is a sequence of parts).
\* Without the image the container runtime exits non-zero.
RunOutcomes(tag) ==
    (IF HasImage(tag)
     THEN {[kind |-> "exit", returncode |-> 0, stdout |-> Some("out"), stderr |-> Some("")]}
     ELSE {})
    \cup {[kind |-> "exit", returncode |-> 1, stdout |-> Some(""), stderr |-> Some("err")],
          [kind |-> "timeout", stdout |-> Null, stderr |-> Null],
          [kind |-> "error", stdout |-> Null, stderr |-> Some(<<"OSError">>)]}

\* An element of an argv: a literal is one part, an f-string is its parts.
Arg(s) == <<s>>

\* Mutant: the sandbox is launched with the default network.
DockerCommandWithNetwork(cfg) ==
    <<Arg("docker"), Arg("run"),
      Arg("--runtime=runsc"),
      Arg("--rm"),
      <<"--memory=", cfg.memory_limit>>,
      <<"--cpus=", cfg.cpu_limit>>,
      Arg("--read-only"),
      Arg("-i"),
      Arg("-w"), Arg("/sandbox"),
      cfg.image_tag>> \o [i \in 1..Len(cfg.run_command) |-> Arg(cfg.run_command[i])]

\* 3. docker_command = ["docker", "run", ...] + compiler_config['run_command']
DockerCommand(cfg) ==
    <<Arg("docker"), Arg("run"),
      Arg("--runtime=runsc"),
      Arg("--rm"),
      Arg("--network=none"),
      <<"--memory=", cfg.memory_limit>>,
      <<"--cpus=", cfg.cpu_limit>>,
      Arg("--read-only"),
      Arg("-i"),
      Arg("-w"), Arg("/sandbox"),
      cfg.image_tag>> \o [i \in 1..Len(cfg.run_command) |-> Arg(cfg.run_command[i])]

\* 3.-4. docker run
RunExec(w) ==
    /\ wk[w].pc = "run_exec"
    /\ \E o \in RunOutcomes(Val(wk[w].cfg).image_tag) :
         wk' = [wk EXCEPT ![w].pc = "run_write",
                          ![w].cmd = Some(DockerCommand(Val(wk[w].cfg))),
                          ![w].res = Some(o)]
    /\ UNCHANGED <<compilers, submissions, job_queue, build_queue, images, api, last, now, nreq, njobs, disk, san, templates, seed>>

TimedOut(timeout) == <<"Execution timed out after ", timeout, " seconds.">>

\* Mutant: the timeout clause leaves completed_at alone.
FinishedRowNoStamp(row, o, cfg, t) ==
    CASE o.kind = "exit" ->
           [row EXCEPT !.status = "COMPLETED", !.output_stdout = o.stdout,
                       !.output_stderr = o.stderr, !.completed_at = Some(t)]
      [] o.kind = "timeout" ->
           [row EXCEPT !.status = "TIMEOUT",
                       !.output_stderr =
                          Some(TimedOut(IF IsNull(cfg) THEN 10 ELSE Val(cfg).timeout_seconds))]
      [] OTHER ->
           [row EXCEPT !.status = "ERROR", !.output_stderr = o.stderr,
                       !.completed_at = Some(t)]

\* Mutant: the timeout message always names the default of 10 seconds.
FinishedRowDefaultTimeout(row, o, cfg, t) ==
    CASE o.kind = "exit" ->
           [row EXCEPT !.status = "COMPLETED", !.output_stdout = o.stdout,
                       !.output_stderr = o.stderr, !.completed_at = Some(t)]
      [] o.kind = "timeout" ->
           [row EXCEPT !.status = "TIMEOUT",
                       !.output_stderr = Some(TimedOut(10)),
                       !.completed_at = Some(t)]
      [] OTHER ->
           [row EXCEPT !.status = "ERROR", !.output_stderr = o.stderr,
                       !.completed_at = Some(t)]

\* Mutant: a run that exits with a non-zero status is recorded as an error.
FinishedRowExitStatus(row, o, cfg, t) ==
    CASE o.kind = "exit" /\ o.returncode = 0 ->
           [row EXCEPT !.status = "COMPLETED", !.output_stdout = o.stdout,
                       !.output_stderr = o.stderr, !.completed_at = Some(t)]
      [] o.kind = "timeout" ->
           [row EXCEPT !.status = "TIMEOUT",
                       !.output_stderr =
                          Some(TimedOut(IF IsNull(cfg) THEN 10 ELSE Val(cfg).timeout_seconds)),
                       !.completed_at = Some(t)]
      [] OTHER ->
           [row EXCEPT !.status = "ERROR", !.output_stderr = o.stderr,
                       !.completed_at = Some(t)]

\* The row run_job writes at its end: the body of step 5 or of an except clause.
FinishedRow(row, o, cfg, t) ==
    CASE o.kind = "exit" ->
           [row EXCEPT !.status = "COMPLETED", !.output_stdout = o.stdout,
                       !.output_stderr = o.stderr, !.completed_at = Some(t)]
      [] o.kind = "timeout" ->
           [row EXCEPT !.status = "TIMEOUT",
                       !.output_stderr =
                          Some(TimedOut(IF IsNull(cfg) THEN 10 ELSE Val(cfg).timeout_seconds)),
                       !.completed_at = Some(t)]
      [] OTHER ->
           [row EXCEPT !.status = "ERROR", !.output_stderr = o.stderr,
                       !.completed_at = Some(t)]

\* Mutant: after a job the loop looks at the jobs again.
RunWriteJobsFirst(w) ==
    /\ wk[w].pc = "run_write"
    /\ submissions' =
         IF HasSubmission(JobId(w))
         THEN ReplaceRow(submissions, SubmissionRow(JobId(w)),
                         FinishedRow(SubmissionRow(JobId(w)), Val(wk[w].res), wk[w].cfg, now))
         ELSE submissions
    /\ wk' = [wk EXCEPT ![w] = Fresh]
    /\ UNCHANGED <<compilers, job_queue, build_queue, images, api, last, now, nreq, njobs, disk, san, templates, seed>>

\* 5. and the except clauses: "if submission: ..."; back to the loop.
RunWrite(w) ==
    /\ wk[w].pc = "run_write"
    /\ submissions' =
         IF HasSubmission(JobId(w))
         THEN ReplaceRow(submissions, SubmissionRow(JobId(w)),
                         FinishedRow(SubmissionRow(JobId(w)), Val(wk[w].res), wk[w].cfg, now))
         ELSE submissions
    /\ wk' = [wk EXCEPT ![w] = [Fresh EXCEPT !.pc = "build_pop"]]
    /\ UNCHANGED <<compilers, job_queue, build_queue, images, api, last, now, nreq, njobs, disk, san, templates, seed>>

\* ------------------------------------------------------------ build queue
Action(w) == Get(Val(wk[w].p), "action")
CompilerId(w) == Val(Get(Val(wk[w].p), "compiler_id"))

\* build_data = REDIS_CONN.rpop(REDIS_BUILD_QUEUE_NAME); dispatch on action.
BuildPop(w) ==
    /\ wk[w].pc = "build_pop"
    /\ IF Len(build_queue) = 0
       THEN /\ Goto(w, "job_pop")
            /\ build_queue' = build_queue
       ELSE /\ LET p == JsonLoads(RPopValue(build_queue))
               IN  wk' = [wk EXCEPT ![w].p = Some(p),
                                    ![w].pc = CASE Get(p, "action") = Some("build") -> "build_start"
                                                [] Get(p, "action") = Some("cleanup") -> "cleanup"
                                                [] OTHER -> "job_pop"]
            /\ build_queue' = RPopRest(build_queue)
    /\ UNCHANGED <<compilers, submissions, job_queue, images, api, last, now, nreq, njobs, disk, san, templates, seed>>

\* ------------------------------------------------------------ build_compiler
\* 1. the row is fetched, marked building and committed; a missing row ends the build.
BuildStart(w) ==
    /\ wk[w].pc = "build_start"
    /\ IF HasCompiler(CompilerId(w))
       THEN /\ compilers' = ReplaceRow(compilers, CompilerRow(CompilerId(w)),
                               [CompilerRow(CompilerId(w)) EXCEPT !.build_status = "building",
                                                                  !.updated_at = now])
            /\ Goto(w, "build_load")
       ELSE /\ compilers' = compilers
            /\ wk' = [wk EXCEPT ![w] = Fresh]
    /\ UNCHANGED <<submissions, job_queue, build_queue, images, api, last, now, nreq, njobs, disk, san, templates, seed>>

\* dockerfile_content and image_tag are read after the commit, which expired the
\* row: they are loaded again, and the load raises when the row is gone.
BuildLoad(w) ==
    /\ wk[w].pc = "build_load"
    /\ wk' = [wk EXCEPT ![w] =
                IF HasCompiler(CompilerId(w))
                THEN [@ EXCEPT !.pc = "build_exec",
                               !.cfg = Some([dockerfile_content |->
                                                CompilerRow(CompilerId(w)).dockerfile_content,
                                             image_tag |-> CompilerRow(CompilerId(w)).image_tag])]
                ELSE [@ EXCEPT !.pc = "build_write",
                               !.res = Some([kind |-> "error", msg |-> "ObjectDeletedError"])]]
    /\ UNCHANGED <<compilers, submissions, job_queue, build_queue, images, api, last, now, nreq, njobs, disk, san, templates, seed>>

\* error_msg = process.stderr or process.stdout
ErrorMsg(stderr, stdout) == IF stderr # "" THEN stderr ELSE stdout

\* What the build can do: exit 0, exit non-zero, exceed the 600 s, or raise.
BuildOutcomes ==
    {[kind |-> "exit0", msg |-> ""],
     [kind |-> "exit1", msg |-> ErrorMsg("", "build output")],
     [kind |-> "timeout", msg |-> "Build timed out after 10 minutes"],
     [kind |-> "error", msg |-> "OSError"]}

\* docker build -t image_tag: a successful build (re)places the image.
Built(tag, content) == {i \in images : i.tag # tag} \cup {[tag |-> tag, content |-> content]}

\* 2.-3. docker build, with one of the given outcomes
BuildExecWith(w, outcomes) ==
    /\ wk[w].pc = "build_exec"
    /\ \E o \in outcomes :
         /\ wk' = [wk EXCEPT ![w].pc = "build_write", ![w].res = Some(o)]
         /\ images' = IF o.kind = "exit0"
                      THEN Built(Val(wk[w].cfg).image_tag, Val(wk[w].cfg).dockerfile_content)
                      ELSE images
    /\ UNCHANGED <<compilers, submissions, job_queue, build_queue, api, last, now, nreq, njobs, disk, san, templates, seed>>

BuildExec(w) == BuildExecWith(w, BuildOutcomes)

\* Mutant: a build that exceeds its time is not recorded as failed.
BuildResultRowTimeoutLost(row, o, t) ==
    IF o.kind = "exit0"
    THEN [row EXCEPT !.build_status = "ready", !.build_error = Null,
                     !.built_at = Some(t), !.updated_at = t]
    ELSE IF o.kind = "timeout" THEN row
    ELSE [row EXCEPT !.build_status = "failed", !.build_error = Some(o.msg),
                     !.updated_at = t]

\* Mutant: a successful build leaves build_error as it was.
BuildResultRowKeepError(row, o, t) ==
    IF o.kind = "exit0"
    THEN [row EXCEPT !.build_status = "ready", !.built_at = Some(t), !.updated_at = t]
    ELSE [row EXCEPT !.build_status = "failed", !.build_error = Some(o.msg),
                     !.updated_at = t]

\* The row build_compiler writes at its end: step 4 or an except clause.
BuildResultRow(row, o, t) ==
    IF o.kind = "exit0"
    THEN [row EXCEPT !.build_status = "ready", !.build_error = Null,
                     !.built_at = Some(t), !.updated_at = t]
    ELSE [row EXCEPT !.build_status = "failed", !.build_error = Some(o.msg),
                     !.updated_at = t]

\* Mutant: the result of the build is not written.
BuildWriteSkipped(w) ==
    /\ wk[w].pc = "build_write"
    /\ wk' = [wk EXCEPT ![w] = Fresh]
    /\ UNCHANGED <<compilers, submissions, job_queue, build_queue, images, api, last, now, nreq, njobs, disk, san, templates, seed>>

\* 4. "if compiler: ..."; back to the loop.
BuildWrite(w) ==
    /\ wk[w].pc = "build_write"
    /\ compilers' =
         IF HasCompiler(CompilerId(w))
         THEN ReplaceRow(compilers, CompilerRow(CompilerId(w)),
                         BuildResultRow(CompilerRow(CompilerId(w)), Val(wk[w].res), now))
         ELSE compilers
    /\ wk' = [wk EXCEPT ![w] = Fresh]
    /\ UNCHANGED <<submissions, job_queue, build_queue, images, api, last, now, nreq, njobs, disk, san, templates, seed>>

\* ------------------------------------------------------------ cleanup_compiler
\* docker rmi -f image_tag: the image is removed, or the command fails and the
\* failure is only printed.
CleanupWith(w, results) ==
    /\ wk[w].pc = "cleanup"
    /\ \E removed \in results :
         images' = IF removed /\ ~IsNull(Get(Val(wk[w].p), "image_tag"))
                   THEN {i \in images : i.tag # Val(Get(Val(wk[w].p), "image_tag"))}
                   ELSE images
    /\ wk' = [wk EXCEPT ![w] = Fresh]
    /\ UNCHANGED <<compilers, submissions, job_queue, build_queue, api, last, now, nreq, njobs, disk, san, templates, seed>>

Cleanup(w) == CleanupWith(w, BOOLEAN)

\* ------------------------------------------------------------ store failures
\* get_db_session() re-raises what the store raises (database.py:31-38).  Inside
\* the try of run_job or build_compiler (steps 1, 2 and the write of the result)
\* the exception is caught by "except Exception" and the handler takes over.
StoreError == "OperationalError"

\* db.commit() of submit_code raises: nothing in submit_code catches it, the
\* request ends with the error and the row is not inserted.
SubmitCommitFails(s) ==
    /\ At(s, "submit", "commit")
    /\ Return(s, StoreError)
    /\ UNCHANGED <<compilers, submissions, job_queue, build_queue, images, wk, now, nreq, njobs, disk, san, templates, seed>>

StoreFailsInTry(w) ==
    /\ \/ /\ wk[w].pc \in {"run_start", "run_config"}
          /\ wk' = [wk EXCEPT ![w].pc = "run_write",
                               ![w].res = Some([kind |-> "error", stdout |-> Null,
                                                stderr |-> Some(<<StoreError>>)])]
       \/ /\ wk[w].pc = "run_write" /\ Val(wk[w].res).kind = "exit"
          /\ wk' = [wk EXCEPT ![w].res = Some([kind |-> "error", stdout |-> Null,
                                                stderr |-> Some(<<StoreError>>)])]
       \/ /\ wk[w].pc \in {"build_start", "build_load"}
          /\ wk' = [wk EXCEPT ![w].pc = "build_write",
                               ![w].res = Some([kind |-> "error", msg |-> StoreError])]
       \/ /\ wk[w].pc = "build_write" /\ Val(wk[w].res).kind \in {"exit0", "exit1"}
          /\ wk' = [wk EXCEPT ![w].res = Some([kind |-> "error", msg |-> StoreError])]
    /\ UNCHANGED <<compilers, submissions, job_queue, build_queue, images, api, last, now, nreq, njobs, disk, san, templates, seed>>

\* Inside an except clause (the write of TIMEOUT, ERROR or failed) nothing catches
\* the exception: it leaves run_job or build_compiler, process_*_queue and main.
StoreFailsInHandler(w) ==
    /\ \/ wk[w].pc = "run_write" /\ Val(wk[w].res).kind \in {"timeout", "error"}
       \/ wk[w].pc = "build_write" /\ Val(wk[w].res).kind \in {"timeout", "error"}
    /\ wk' = [wk EXCEPT ![w].pc = "crashed"]
    /\ UNCHANGED <<compilers, submissions, job_queue, build_queue, images, api, last, now, nreq, njobs, disk, san, templates, seed>>

\* ------------------------------------------------------------ catalog seeder
\* templates/definitions.py: LANGUAGE_TEMPLATES, its first three definitions with
\* the description and the recipe cut to their first words.
LANGUAGE_TEMPLATES ==
    <<[id |-> "python-3.12", name |-> "Python 3.12",
       description |-> "Latest Python 3.12 runtime", category |-> "language",
       dockerfile_template |-> "FROM python:3.12-slim",
       default_run_command |-> <<"python", "-">>,
       tags |-> <<"python", "python3", "scripting">>,
       icon |-> "snake", author |-> "yantra", is_official |-> TRUE],
      [id |-> "python-3.11-data", name |-> "Python 3.11 Data Science",
       description |-> "Python 3.11 with numpy", category |-> "language",
       dockerfile_template |-> "FROM python:3.11-slim",
       default_run_command |-> <<"python", "-">>,
       tags |-> <<"python", "data-science", "numpy", "pandas">>,
       icon |-> "chart", author |-> "yantra", is_official |-> TRUE],
      [id |-> "nodejs-20", name |-> "Node.js 20 LTS",
       description |-> "Node.js 20 LTS with npm", category |-> "language",
       dockerfile_template |-> "FROM node:20-slim",
       default_run_command |-> <<"node", "-">>,
       tags |-> <<"nodejs", "javascript", "node", "js">>,
       icon |-> "green", author |-> "yantra", is_official |-> TRUE]>>

\* DockerfileTemplate(id=template_data["id"], ...)
NewTemplate(d) ==
    [id |-> d.id, name |-> d.name, description |-> d.description,
     category |-> d.category, dockerfile_template |-> d.dockerfile_template,
     default_run_command |->
        IF d.default_run_command # <<>> THEN Some(JsonDumps(d.default_run_command)) ELSE Null,
     tags |-> IF d.tags # <<>> THEN Some(JsonDumps(d.tags)) ELSE Null,
     icon |-> Some(d.icon), author |-> d.author, is_official |-> d.is_official]

\* Mutant: the seeder never finds a template.
ExistingTemplateNever(template_id) == FALSE

\* existing_template = db.query(DockerfileTemplate).filter(id == template_id).first()
ExistingTemplate(template_id) == \E r \in templates : r.id = template_id

\* A seeder run begins: results = {"added": [], "skipped": [], ...}.
MaxSeedRuns == 2
SeedStart ==
    /\ seed.pc = "idle"
    /\ Len(seed.returned) < MaxSeedRuns
    /\ seed' = [seed EXCEPT !.pc = "loop", !.i = 1, !.pending = {},
                            !.results = EmptyResults]
    /\ UNCHANGED <<compilers, submissions, job_queue, build_queue, images, api, last, wk, now, nreq, njobs, disk, san, templates>>

\* One turn of "for template_data in LANGUAGE_TEMPLATES" that raises nothing: the
\* template is skipped when a row of its id exists, added to the session when not
\* (the session does not flush before a query: autoflush=False).
SeedTemplate ==
    /\ seed.pc = "loop" /\ seed.i <= Len(LANGUAGE_TEMPLATES)
    /\ LET d == LANGUAGE_TEMPLATES[seed.i]
       IN  seed' =
             IF ExistingTemplate(d.id)
             THEN [seed EXCEPT !.i = @ + 1,
                               !.results.skipped = Append(@, d.id)]
             ELSE [seed EXCEPT !.i = @ + 1,
                               !.pending = @ \cup {NewTemplate(d)},
                               !.results.added = Append(@, d.id)]
    /\ UNCHANGED <<compilers, submissions, job_queue, build_queue, images, api, last, wk, now, nreq, njobs, disk, san, templates>>

\* The turn raises (the store fails under the query): "except Exception" rolls the
\* session back, which drops every object added and not yet committed, and notes
\* the error.
SeedTemplateFails ==
    /\ seed.pc = "loop" /\ seed.i <= Len(LANGUAGE_TEMPLATES)
    /\ seed' = [seed EXCEPT !.i = @ + 1,
                            !.pending = {},
                            !.results.errors =
                               Append(@, [template_id |-> LANGUAGE_TEMPLATES[seed.i].id,
                                          error |-> <<StoreError>>])]
    /\ UNCHANGED <<compilers, submissions, job_queue, build_queue, images, api, last, wk, now, nreq, njobs, disk, san, templates>>

\* What ends a run: the results go back to the caller.
SeedReturn(results) ==
    [seed EXCEPT !.pc = "idle", !.pending = {}, !.results = results,
                 !.returned = Append(@, results)]
CommitError(msg) ==
    [template_id |-> "commit", error |-> <<"Failed to commit changes: ", msg>>]

\* "if results['added']: db.commit()", then return results.  The commit inserts
\* the rows of the session; the primary key refuses a row whose id is there.
SeedCommit ==
    /\ seed.pc = "loop" /\ seed.i > Len(LANGUAGE_TEMPLATES)
    /\ IF seed.results.added = <<>>
       THEN /\ templates' = templates
            /\ seed' = SeedReturn(seed.results)
       ELSE IF \E p \in seed.pending : \E r \in templates : r.id = p.id
       THEN /\ templates' = templates
            /\ seed' = SeedReturn([seed.results EXCEPT
                                     !.errors = Append(@, CommitError("IntegrityError"))])
       ELSE /\ templates' = templates \cup seed.pending
            /\ seed' = SeedReturn(seed.results)
    /\ UNCHANGED <<compilers, submissions, job_queue, build_queue, images, api, last, wk, now, nreq, njobs, disk, san>>

\* The commit raises: db.rollback(), one more error, return results.
SeedCommitFails ==
    /\ seed.pc = "loop" /\ seed.i > Len(LANGUAGE_TEMPLATES)
    /\ seed.results.added # <<>>
    /\ seed' = SeedReturn([seed.results EXCEPT
                             !.errors = Append(@, CommitError(StoreError))])
    /\ UNCHANGED <<compilers, submissions, job_queue, build_queue, images, api, last, wk, now, nreq, njobs, disk, san, templates>>

\* The stores a seeder run can start from: of each curated template no row, the
\* curated row, or a row an operator has made or edited under that id; and,
\* or not, a template of the operator's own.
EditedTemplate(d) ==
    [NewTemplate(d) EXCEPT !.name = "edited", !.dockerfile_template = "FROM edited",
                           !.is_official = FALSE]
TemplateStores ==
    LET OwnTemplate == [EditedTemplate(LANGUAGE_TEMPLATES[1]) EXCEPT !.id = "my-template"]
        StoredAs(d, kind) ==
            CASE kind = "absent" -> {}
              [] kind = "curated" -> {NewTemplate(d)}
              [] OTHER -> {EditedTemplate(d)}
    IN  {UNION {StoredAs(LANGUAGE_TEMPLATES[i], kind[i]) : i \in 1..Len(LANGUAGE_TEMPLATES)}
           \cup own :
            kind \in [1..Len(LANGUAGE_TEMPLATES) -> {"absent", "curated", "edited"}],
            own \in {{}, {OwnTemplate}}}

\* ------------------------------------------------------------ time
Tick ==
    /\ now < MaxClock
    /\ now' = now + 1
    /\ UNCHANGED <<compilers, submissions, job_queue, build_queue, images, api, last, wk, nreq, njobs, disk, san, templates, seed>>

\* ------------------------------------------------------------ specification
StartCreate(S) == \E s \in S, r \in CreateReqs : Begin(s, "create", r.id, r)
StartUpdate(S) == \E s \in S, id \in Ids, u \in Patches : Begin(s, "update", id, u)
StartTrigger(S) == \E s \in S, id \in Ids : Begin(s, "trigger_build", id, Null)
StartDelete(S) == \E s \in S, id \in Ids : Begin(s, "delete", id, Null)
StartSubmit(S) ==
    \E s \in S, id \in Ids, c \in Codes : Begin(s, "submit", id, [code |-> c, files |-> <<>>])

Init ==
    /\ compilers = {}
    /\ submissions = {}
    /\ job_queue = <<>>
    /\ build_queue = <<>>
    /\ images = {}
    /\ api = [s \in Slots |-> Idle]
    /\ last = NoResponse
    /\ wk = [w \in Workers |-> Fresh]
    /\ now = 1
    /\ nreq = 0
    /\ njobs = 0
    /\ disk = {}
    /\ san = NoCall
    /\ templates = {}
    /\ seed = NotSeeding

\* The API tier serving requests on the slots S.
ApiNext(S) ==
    \/ StartCreate(S)
    \/ StartUpdate(S)
    \/ StartTrigger(S)
    \/ StartDelete(S)
    \/ StartSubmit(S)
    \/ \E s \in S : CreateRead(s)
    \/ \E s \in S : CreateCommit(s)
    \/ \E s \in S : CreatePush(s)
    \/ \E s \in S : UpdateRead(s)
    \/ \E s \in S : UpdateCommit(s)
    \/ \E s \in S : UpdatePush(s)
    \/ \E s \in S : TriggerRead(s)
    \/ \E s \in S : TriggerCommit(s)
    \/ \E s \in S : TriggerPush(s)
    \/ \E s \in S : DeleteRead(s)
    \/ \E s \in S : DeleteCommit(s)
    \/ \E s \in S : DeletePush(s)
    \/ \E s \in S : SubmitRead(s)
    \/ \E s \in S : SubmitCommit(s)
    \/ \E s \in S : SubmitPush(s)

\* The worker processes W.
WorkerNext(W) ==
    \/ \E w \in W : JobPop(w)
    \/ \E w \in W : RunStart(w)
    \/ \E w \in W : RunConfig(w)
    \/ \E w \in W : RunExec(w)
    \/ \E w \in W : RunWrite(w)
    \/ \E w \in W : BuildPop(w)
    \/ \E w \in W : BuildStart(w)
    \/ \E w \in W : BuildLoad(w)
    \/ \E w \in W : BuildExec(w)
    \/ \E w \in W : BuildWrite(w)
    \/ \E w \in W : Cleanup(w)

\* One request at a time and one worker.
Next == ApiNext({1}) \/ WorkerNext({1}) \/ Tick
Spec == Init /\ [][Next]_vars

\* Concurrent requests and one worker.
NextApi == ApiNext(Slots) \/ WorkerNext({1}) \/ Tick
SpecApi == Init /\ [][NextApi]_vars

\* One request at a time and several workers.
NextWorkers == ApiNext({1}) \/ WorkerNext(Workers) \/ Tick
SpecWorkers == Init /\ [][NextWorkers]_vars

\* trigger_build on a runtime that is ready, where every build succeeds: the store
\* holds one runtime as create and a successful build leave it, with its image.
BuildSucceeds == {o \in BuildOutcomes : o.kind = "exit0"}
ReadyRow(req, t) ==
    BuildResultRow(NewCompiler(req, t), CHOOSE o \in BuildSucceeds : TRUE, t)
InitReady ==
    /\ compilers = {ReadyRow(CreateReq("py", "FROM a"), 1)}
    /\ submissions = {}
    /\ job_queue = <<>>
    /\ build_queue = <<>>
    /\ images = {[tag |-> ImageTag("py"), content |-> "FROM a"]}
    /\ api = [s \in Slots |-> Idle]
    /\ last = NoResponse
    /\ wk = [w \in Workers |-> Fresh]
    /\ now = 1
    /\ nreq = 0
    /\ njobs = 0
    /\ disk = {}
    /\ san = NoCall
    /\ templates = {}
    /\ seed = NotSeeding
NextTrigger ==
    \/ StartTrigger(Slots)
    \/ \E s \in Slots : TriggerRead(s)
    \/ \E s \in Slots : TriggerCommit(s)
    \/ \E s \in Slots : TriggerPush(s)
    \/ \E w \in Workers : JobPop(w)
    \/ \E w \in Workers : BuildPop(w)
    \/ \E w \in Workers : BuildStart(w)
    \/ \E w \in Workers : BuildLoad(w)
    \/ \E w \in Workers : BuildExecWith(w, BuildSucceeds)
    \/ \E w \in Workers : BuildWrite(w)
    \/ Tick
SpecTrigger == InitReady /\ [][NextTrigger]_vars

\* One request at a time and one worker, with a store that can fail under the
\* worker.
NextFaults ==
    \/ ApiNext({1})
    \/ WorkerNext({1})
    \/ StoreFailsInTry(1)
    \/ StoreFailsInHandler(1)
    \/ Tick
SpecFaults == Init /\ [][NextFaults]_vars

\* The whole system, started with one runtime that is built and ready: one
\* request at a time and several workers.
SpecReady == InitReady /\ [][NextWorkers]_vars

\* One request at a time and several workers, with a docker daemon whose rmi
\* always removes the image.
NextRemoves ==
    \/ ApiNext({1})
    \/ \E w \in Workers : JobPop(w)
    \/ \E w \in Workers : RunStart(w)
    \/ \E w \in Workers : RunConfig(w)
    \/ \E w \in Workers : RunExec(w)
    \/ \E w \in Workers : RunWrite(w)
    \/ \E w \in Workers : BuildPop(w)
    \/ \E w \in Workers : BuildStart(w)
    \/ \E w \in Workers : BuildLoad(w)
    \/ \E w \in Workers : BuildExec(w)
    \/ \E w \in Workers : BuildWrite(w)
    \/ \E w \in Workers : CleanupWith(w, {TRUE})
    \/ Tick
SpecRemoves == Init /\ [][NextRemoves]_vars

\* One request at a time and several workers, none of which stops: a request
\* that has begun takes its next step, and each worker, a process of its own
\* running main()'s loop, takes its next step.
NextLive == ApiNext({1}) \/ WorkerNext(Workers)
Fairness ==
    /\ WF_vars(ApiNext({1}) /\ api[1].pc # "idle")
    /\ \A w \in Workers : WF_vars(WorkerNext({w}))
SpecLive == Init /\ [][NextLive]_vars /\ Fairness

\* The uploads of a submit: lists of up to MaxFiles files f1.js, f2.js, ... whose
\* sizes are all alike but the last, around the limits of the configuration; and
\* lists of one or two small files under names of every kind.
MaxFiles == 11
File(name, size) == [filename |-> name, size |-> size, content_type |-> "text/plain"]
Sizes == {0, 1, 2621440, 2621441, 26214400, 26214401}
FileLists ==
    LET HexDigits == <<"1", "2", "3", "4", "5", "6", "7", "8", "9", "a", "b", "c", "d", "e", "f">>
        NumberedName(i) == <<"f", HexDigits[i], ".", "j", "s">>
        SizeLists ==
            {[i \in 1..n |-> File(NumberedName(i), IF i = n THEN b ELSE a)] :
                n \in 1..MaxFiles, a \in Sizes, b \in Sizes}
        UploadNames ==
            {<<"a", ".", "j", "s">>,
             <<"a", ".", "J", "s">>,
             <<"a", ".", "j", "s", "/">>,
             <<"a", ".", "j", "s", "/", ".">>,
             <<"x", "/", "a", ".", "j", "s">>,
             <<"a", "$", ".", "j", "s">>,
             <<"U+00E9", ".", "j", "s">>,
             <<"a", ".", "j", "$">>,
             <<"a">>,
             <<".", "j", "s">>}
        NameLists ==
            {<<File(n, 1)>> : n \in UploadNames}
            \cup {<<File(n, 1), File(m, 2)>> : n \in UploadNames, m \in UploadNames}
    IN  SizeLists \cup NameLists

\* A submit with files has arrived for a runtime that is built and ready; one
\* worker handles the job, and the store can fail at the insert of the row.
InitUpload ==
    /\ compilers = {ReadyRow(CreateReq("py", "FROM a"), 1)}
    /\ submissions = {}
    /\ job_queue = <<>>
    /\ build_queue = <<>>
    /\ images = {[tag |-> ImageTag("py"), content |-> "FROM a"]}
    /\ \E c \in Codes, fl \in FileLists :
         api = [s \in Slots |->
                  IF s = 1
                  THEN [pc |-> "read", op |-> "submit", id |-> "py",
                        arg |-> [code |-> c, files |-> fl], aux |-> Null, up |-> Null]
                  ELSE Idle]
    /\ last = NoResponse
    /\ wk = [w \in Workers |-> Fresh]
    /\ now = 1
    /\ nreq = 1
    /\ njobs = 0
    /\ disk = {}
    /\ san = NoCall
    /\ templates = {}
    /\ seed = NotSeeding
NextUpload ==
    \/ SubmitRead(1)
    \/ StageOpen(1)
    \/ StageFile(1)
    \/ StageFileFails(1)
    \/ SubmitCommit(1)
    \/ SubmitCommitFails(1)
    \/ SubmitPush(1)
    \/ JobPop(1)
    \/ RunStart(1)
    \/ RunConfig(1)
    \/ RunExec(1)
    \/ RunWrite(1)
    \/ BuildPop(1)
SpecUpload == InitUpload /\ [][NextUpload]_vars

\* The catalog seeder, run up to MaxSeedRuns times one after the other on a store
\* of templates; the store can fail under it.
InitSeed ==
    /\ compilers = {}
    /\ submissions = {}
    /\ job_queue = <<>>
    /\ build_queue = <<>>
    /\ images = {}
    /\ api = [s \in Slots |-> Idle]
    /\ last = NoResponse
    /\ wk = [w \in Workers |-> Fresh]
    /\ now = 1
    /\ nreq = 0
    /\ njobs = 0
    /\ disk = {}
    /\ san = NoCall
    /\ templates \in TemplateStores
    /\ seed = NotSeeding
NextSeed ==
    \/ SeedStart
    \/ SeedTemplate
    \/ SeedTemplateFails
    \/ SeedCommit
    \/ SeedCommitFails
SpecSeed == InitSeed /\ [][NextSeed]_vars

\* The file name helpers, applied to a declared file name.
InitNames ==
    /\ compilers = {}
    /\ submissions = {}
    /\ job_queue = <<>>
    /\ build_queue = <<>>
    /\ images = {}
    /\ api = [s \in Slots |-> Idle]
    /\ last = NoResponse
    /\ wk = [w \in Workers |-> Fresh]
    /\ now = 1
    /\ nreq = 0
    /\ njobs = 0
    /\ disk = {}
    /\ san \in {[NoCall EXCEPT !.filename = n] : n \in Filenames}
    /\ templates = {}
    /\ seed = NotSeeding
NextNames == Sanitizes \/ Validates
SpecNames == InitNames /\ [][NextNames]_vars

\* ------------------------------------------------------------ claims
Terminal == {"COMPLETED", "TIMEOUT", "ERROR"}
RunPcs == {"run_start", "run_config", "run_exec", "run_write"}

\* The job ids named by the payloads waiting in job_queue, and by the payloads
\* the workers have popped and are handling.
QueuedJobIds == {JsonLoads(job_queue[i]).job_id : i \in 1..Len(job_queue)}
PoppedJobIds == {JobId(w) : w \in {x \in Workers : wk[x].pc \in RunPcs}}

\* C1: in every reachable state, every payload that is in the jobs queue or has
\* been popped by a worker names a job_id whose submission row is committed.
C1_RowBeforePayload == \A j \in QueuedJobIds \cup PoppedJobIds : HasSubmission(j)

\* A worker has popped a payload whose row is there, still PENDING.
C1_Witness ==
    \E w \in Workers :
        /\ wk[w].pc = "run_start"
        /\ HasSubmission(JobId(w))
        /\ SubmissionRow(JobId(w)).status = "PENDING"

LegalMove(a, b) ==
    \/ a = b
    \/ a = "PENDING" /\ b = "RUNNING"
    \/ a = "RUNNING" /\ b \in Terminal

\* C2: in every step, every submission keeps its row, and its status stays or moves
\* along PENDING -> RUNNING -> {COMPLETED, TIMEOUT, ERROR}.
C2_StatusMonotone ==
    [][\A r \in submissions :
          /\ \E r2 \in submissions' : r2.job_id = r.job_id
          /\ \A r2 \in submissions' :
                r2.job_id = r.job_id => LegalMove(r.status, r2.status)]_vars

\* One submission has finished while a second one is running.
C2_Witness ==
    \E r, r2 \in submissions : r.status \in Terminal /\ r2.status = "RUNNING"

\* C3: in every reachable state a submission has completed_at set exactly when its
\* status is COMPLETED, TIMEOUT or ERROR, and null when it is PENDING or RUNNING.
C3_CompletedAt ==
    \A r \in submissions :
        /\ r.status \in Terminal => ~IsNull(r.completed_at)
        /\ r.status \in {"PENDING", "RUNNING"} => IsNull(r.completed_at)

\* A submission that timed out, and one that ended in ERROR for want of a runtime.
C3_Witness ==
    \E r \in submissions : r.status = "TIMEOUT" /\ ~IsNull(r.completed_at)

\* A step of the request on slot s, and a step with which it returns.
StepOf(s, op) == api[s].op = op /\ api'[s] # api[s]
Returns(s) == api[s].pc # "idle" /\ api'[s].pc = "idle"

\* The runtime row of an id, before and after a step.
RowOf(id) == CHOOSE r \in compilers : r.id = id
RowAfter(id) == CHOOSE r \in compilers' : r.id = id
Exists(id) == \E r \in compilers : r.id = id
ExistsAfter(id) == \E r \in compilers' : r.id = id

\* C4: a submit is refused at its language check as unknown, else disabled, else
\* not ready, and accepted otherwise; a submit that returns an error has inserted no
\* row and pushed no payload; an accepted submit inserts exactly one PENDING row (in
\* its commit) and then pushes exactly one payload naming that row's job_id.
C4_SubmitValidation ==
    [][\A s \in Slots : StepOf(s, "submit") =>
          LET id == api[s].id
              disabled == \E r \in compilers : r.id = id /\ ~r.enabled
              notready == \E r \in compilers : r.id = id /\ r.build_status # "ready"
          IN  /\ api[s].pc = "read" =>
                   /\ ~Exists(id) => Returns(s) /\ last'.st = "LanguageUnknown"
                   /\ disabled => Returns(s) /\ last'.st = "LanguageDisabled"
                   /\ notready /\ ~disabled => Returns(s) /\ last'.st = "LanguageNotReady"
                   /\ Exists(id) /\ ~disabled /\ ~notready => api'[s].pc = "commit"
                   /\ submissions' = submissions /\ job_queue' = job_queue
              /\ Returns(s) /\ last'.st # "ok" =>
                   /\ api[s].pc \in {"read", "commit"}
                   /\ submissions' = submissions /\ job_queue' = job_queue
              /\ api[s].pc = "commit" /\ ~Returns(s) =>
                   /\ \E r \in submissions' :
                        /\ r.status = "PENDING" /\ r.language = id /\ r.job_id = Val(api'[s].aux)
                        /\ r \notin submissions
                        /\ submissions' = submissions \cup {r}
                   /\ Cardinality(submissions') = Cardinality(submissions) + 1
                   /\ job_queue' = job_queue
              /\ api[s].pc = "push" =>
                   /\ Returns(s) /\ last'.st = "ok"
                   /\ Len(job_queue') = Len(job_queue) + 1
                   /\ SubSeq(job_queue', 2, Len(job_queue')) = job_queue
                   /\ JsonLoads(job_queue'[1]).job_id = Val(api[s].aux)
                   /\ submissions' = submissions]_vars

\* A submit was refused as disabled for a runtime that is disabled and not ready.
C4_Witness ==
    /\ last.op = "submit" /\ last.st = "LanguageDisabled"
    /\ \E r \in compilers : r.id = last.id /\ ~r.enabled /\ r.build_status # "ready"
    /\ submissions = {} /\ job_queue = <<>>

\* C5: in every reachable state, every runtime row has
\* image_tag = "yantra-" + id + ":latest".
C5_ImageRef == \A r \in compilers : r.image_tag = <<"yantra-", r.id, ":latest">>

\* A runtime that was created, updated and built, with a request still in flight.
C5_Witness ==
    \E r \in compilers :
        /\ r.build_status = "ready" /\ r.run_command = JsonDumps(<<"sh">>)
        /\ r.image_tag = <<"yantra-", r.id, ":latest">>

\* An update that sets build_recipe or run_command, and one that sets neither.
SetsRecipeOrCommand(u) == u.dockerfile_content # <<>> \/ u.run_command # <<>>
SetsNothing(u) == \A f \in DOMAIN u : u[f] = <<>>
IsReset(r) == r.build_status = "pending" /\ r.build_error = <<>> /\ r.built_at = <<>>
OneBuildPushed(id) ==
    build_queue' = <<JsonDumps([compiler_id |-> id, action |-> "build"])>> \o build_queue

C7_UpdateFrame ==
    [][\A s \in Slots :
          StepOf(s, "update") /\ ~SetsRecipeOrCommand(api[s].arg) /\ ~SetsNothing(api[s].arg) =>
            /\ build_queue' = build_queue
            /\ api[s].pc # "push" /\ api'[s].pc # "push"
            /\ Exists(api[s].id) =>
                 /\ ExistsAfter(api[s].id)
                 /\ \A f \in {"build_status", "build_error", "built_at",
                              "dockerfile_content", "run_command", "image_tag"} :
                       RowAfter(api[s].id)[f] = RowOf(api[s].id)[f]]_vars

\* An update of the name alone has returned for a runtime that is ready.
C7_Witness ==
    /\ last.op = "update" /\ last.st = "ok" /\ last.arg.name = <<"n2">>
    /\ ~SetsRecipeOrCommand(last.arg)
    /\ \E r \in compilers : r.id = last.id /\ r.name = "n2" /\ r.build_status = "ready"
                            /\ ~IsNull(r.built_at)
    /\ build_queue = <<>>

\* C8: an update of an existing runtime with no field set returns NothingToUpdate
\* from its first step, changes no row and pushes nothing.
C8_NothingToUpdate ==
    [][\A s \in Slots : StepOf(s, "update") /\ SetsNothing(api[s].arg) =>
          /\ api[s].pc = "read"
          /\ Returns(s)
          /\ Exists(api[s].id) => last'.st = "NothingToUpdate"
          /\ compilers' = compilers
          /\ build_queue' = build_queue]_vars

\* An empty update has been refused for a row older than the store's clock.
C8_Witness ==
    /\ last.op = "update" /\ last.st = "NothingToUpdate"
    /\ \E r \in compilers : r.id = last.id /\ r.updated_at < now

\* C9: in every reachable state there is at most one runtime row per id; a create
\* that finds the id in the store returns DuplicateId, and a create whose insert
\* meets a row of the same id fails; both leave the rows and the builds queue as
\* they were.
C9_DuplicateId ==
    /\ [](\A r1, r2 \in compilers : r1.id = r2.id => r1 = r2)
    /\ [][\A s \in Slots :
            StepOf(s, "create") /\ api[s].pc \in {"read", "commit"} /\ Exists(api[s].id) =>
              /\ Returns(s)
              /\ last'.st = (IF api[s].pc = "read" THEN "DuplicateId" ELSE "IntegrityError")
              /\ compilers' = compilers
              /\ build_queue' = build_queue]_vars

\* A create was refused as a duplicate of the one row of its id, which holds
\* another build_recipe than the refused definition.
C9_Witness ==
    /\ last.op = "create" /\ last.st = "DuplicateId"
    /\ \E r \in compilers :
         r.id = last.id /\ r.dockerfile_content # last.arg.dockerfile_content

\* C10: the commit of a create inserts one row, with build_status = pending,
\* enabled = true, build_error = null and built_at = null, and pushes nothing; the
\* step after it pushes exactly one build payload for the id and returns the row.
C10_Create ==
    [][\A s \in Slots : StepOf(s, "create") =>
          /\ api[s].pc = "read" => compilers' = compilers /\ build_queue' = build_queue
          /\ api[s].pc = "commit" /\ ~Exists(api[s].id) =>
               /\ \E r \in compilers' :
                    /\ r.id = api[s].id /\ IsReset(r) /\ r.enabled = TRUE
                    /\ compilers' = compilers \cup {r}
               /\ build_queue' = build_queue
               /\ api'[s].pc = "push"
          /\ api'[s].pc = "push" => api[s].pc = "commit" /\ ~Exists(api[s].id)
          /\ api[s].pc = "push" =>
               /\ OneBuildPushed(api[s].id)
               /\ compilers' = compilers
               /\ Returns(s) /\ last'.st = "ok"
               /\ IsReset(Val(last'.body)) /\ Val(last'.body).enabled = TRUE
          /\ build_queue' # build_queue => api[s].pc = "push"]_vars

\* A create has returned: its row is in the store and its payload in the queue.
C10_Witness ==
    /\ last.op = "create" /\ last.st = "ok"
    /\ \E r \in compilers : r.id = last.id /\ IsReset(r) /\ r = Val(last.body)
    /\ build_queue = <<JsonDumps([compiler_id |-> last.id, action |-> "build"])>>

\* A step of worker w.
WorkerStep(w) == wk'[w] # wk[w]
PoppedId(w) == Val(wk'[w].p).compiler_id

\* C11, as the claim states it: whenever a worker pops a build payload, the row
\* named by its compiler_id is in the store.
C11_RowWhenPopped ==
    [][\A w \in Workers :
          wk[w].pc = "build_pop" /\ wk'[w].pc = "build_start" => Exists(PoppedId(w))]_vars

\* C11, amended: a request reaches the push of a build payload only through a commit
\* that leaves the row of its id in the store; a delete can remove that row before a
\* worker pops the payload, and a worker that finds no row changes no row and no
\* image and goes back to the start of its loop.
C11_RowWhenPushed ==
    [][/\ \A s \in Slots :
            /\ api[s].op \in {"create", "update", "trigger_build"}
            /\ api[s].pc # "push" /\ api'[s].pc = "push"
            => api[s].pc = "commit" /\ ExistsAfter(api[s].id)
       /\ \A w \in Workers :
            /\ wk[w].pc = "build_start" /\ WorkerStep(w)
            /\ ~Exists(Val(wk[w].p).compiler_id)
            => /\ compilers' = compilers /\ images' = images
               /\ wk'[w].pc = "job_pop"]_vars

\* A worker has popped a build payload whose runtime row has been deleted.
C11_Witness ==
    \E w \in Workers :
        /\ wk[w].pc = "build_start"
        /\ ~\E r \in compilers : r.id = Val(wk[w].p).compiler_id

\* Nothing is in flight: no request, no payload in the builds queue, no worker
\* inside a handler.
Quiet ==
    /\ \A s \in Slots : api[s].pc = "idle"
    /\ build_queue = <<>>
    /\ \A w \in Workers : wk[w].pc \in {"job_pop", "build_pop"}

\* C12: with every build succeeding, each trigger_build on the ready runtime pushes
\* exactly one build payload, in the step with which it returns, and nothing in
\* its other steps; and whenever all the payloads have been handled (nothing is in
\* flight) the runtime's build_status is ready.
C12_TriggerBuild ==
    /\ [](Quiet => \A r \in compilers : r.build_status = "ready" /\ r.build_error = <<>>)
    /\ [][\A s \in Slots : StepOf(s, "trigger_build") =>
            /\ (Returns(s) /\ last'.st = "ok") <=> api[s].pc = "push"
            /\ api[s].pc = "push" => OneBuildPushed(api[s].id)
            /\ api[s].pc # "push" => build_queue' = build_queue]_vars

\* Every request the bound allows was a trigger_build, all have returned, a build
\* finished after the clock moved, and nothing is in flight.
C12_Witness ==
    /\ Quiet /\ nreq = MaxRequests
    /\ last.op = "trigger_build" /\ last.st = "ok"
    /\ \E r \in compilers : r.build_status = "ready" /\ r.built_at = <<2>>

\* C13: a delete of a missing id returns not found and pushes nothing; a delete of
\* an existing runtime removes the row in its commit and then pushes exactly one
\* cleanup payload carrying the id and the row's image tag; no cleanup by a worker,
\* whatever its outcome, changes the rows.
C13_Delete ==
    [][/\ \A s \in Slots : StepOf(s, "delete") =>
            /\ api[s].pc = "read" /\ ~Exists(api[s].id) =>
                 Returns(s) /\ last'.st = "NotFound" /\ build_queue' = build_queue
            /\ api[s].pc = "read" /\ Exists(api[s].id) =>
                 api'[s].pc = "commit" /\ build_queue' = build_queue
            /\ api[s].pc = "commit" /\ Exists(api[s].id) =>
                 /\ ~ExistsAfter(api[s].id)
                 /\ api'[s].pc = "push"
                 /\ build_queue' = build_queue
            /\ api[s].pc = "push" =>
                 /\ build_queue' =
                      <<JsonDumps([compiler_id |-> api[s].id,
                                   image_tag |-> <<"yantra-", api[s].id, ":latest">>,
                                   action |-> "cleanup"])>> \o build_queue
                 /\ compilers' = compilers
                 /\ Returns(s) /\ last'.st = "ok"
       /\ \A w \in Workers :
            wk[w].pc = "cleanup" /\ WorkerStep(w) => compilers' = compilers]_vars

\* The runtime a worker's build payload names.
BuildId(w) == Val(wk[w].p).compiler_id

\* C14: a worker handling a build payload for an existing runtime first commits
\* build_status = building, and only then reads the recipe and runs the build;
\* when the build has exited with status 0 and the row still exists, the worker's
\* last write sets build_status = ready, build_error = null and built_at to the
\* time of that write.
C14_BuildSuccess ==
    [][\A w \in Workers : WorkerStep(w) =>
          /\ wk[w].pc = "build_start" /\ Exists(BuildId(w)) =>
               /\ RowAfter(BuildId(w)).build_status = "building"
               /\ wk'[w].pc = "build_load"
          /\ wk'[w].pc = "build_load" => wk[w].pc = "build_start" /\ Exists(BuildId(w))
          /\ wk'[w].pc = "build_exec" => wk[w].pc = "build_load"
          /\ wk[w].pc = "build_write" /\ Val(wk[w].res).kind = "exit0" /\ Exists(BuildId(w)) =>
               /\ RowAfter(BuildId(w)).build_status = "ready"
               /\ RowAfter(BuildId(w)).build_error = <<>>
               /\ RowAfter(BuildId(w)).built_at = <<now>>]_vars

\* A build that started after the clock moved has succeeded.
C14_Witness ==
    \E r \in compilers :
        r.build_status = "ready" /\ r.build_error = <<>> /\ r.built_at = <<2>>

\* C15: when a worker has finished a build of a runtime that exists (the build
\* exited, with status 0 or not), the row's build_logs holds the builder's output
\* and get_build_logs returns that output.
C15_BuildLogs ==
    [][\A w \in Workers :
          /\ WorkerStep(w) /\ wk[w].pc = "build_write"
          /\ Val(wk[w].res).kind \in {"exit0", "exit1"}
          /\ Exists(BuildId(w))
          => /\ RowAfter(BuildId(w)).build_logs # <<>>
             /\ GetBuildLogs(RowAfter(BuildId(w))).build_logs =
                  Val(RowAfter(BuildId(w)).build_logs)]_vars

\* C16: when the build of an existing runtime has exited with a non-zero status,
\* exceeded its 600 s or raised, the worker's last write sets build_status = failed
\* and build_error to a non-null value (the builder's output or the message of the
\* timeout or error) and leaves built_at as it was.
C16_BuildFailure ==
    [][\A w \in Workers :
          /\ WorkerStep(w) /\ wk[w].pc = "build_write"
          /\ Val(wk[w].res).kind \in {"exit1", "timeout", "error"}
          /\ Exists(BuildId(w))
          => /\ RowAfter(BuildId(w)).build_status = "failed"
             /\ RowAfter(BuildId(w)).build_error # <<>>
             /\ RowAfter(BuildId(w)).build_error = <<Val(wk[w].res).msg>>
             /\ RowAfter(BuildId(w)).built_at = RowOf(BuildId(w)).built_at]_vars

\* A rebuild of a runtime that had been built has exceeded its time.
C16_Witness ==
    \E r \in compilers :
        /\ r.build_status = "failed"
        /\ r.build_error = <<"Build timed out after 10 minutes">>
        /\ r.built_at # <<>>

\* The positions of a worker inside a build or cleanup handler.
BuildPcs == {"build_start", "build_load", "build_exec", "build_write", "cleanup"}

\* C17: a worker takes payloads from the two queues in turn.  At the jobs pop it
\* takes one payload if there is one and none otherwise, handles it, and then
\* always comes to the builds pop; there it takes one payload if there is one,
\* handles it, and then always comes back to the jobs pop.  A queue loses a
\* payload only by such a pop, one payload at a time.
C17_RoundRobin ==
    [][/\ \A w \in Workers : WorkerStep(w) =>
            /\ wk[w].pc = "job_pop" =>
                 IF job_queue # <<>>
                 THEN wk'[w].pc = "run_start" /\ Len(job_queue') = Len(job_queue) - 1
                 ELSE wk'[w].pc = "build_pop" /\ job_queue' = job_queue
            /\ wk[w].pc \in RunPcs => wk'[w].pc \in RunPcs \cup {"build_pop"}
            /\ wk[w].pc = "build_pop" =>
                 IF build_queue # <<>>
                 THEN /\ wk'[w].pc \in {"build_start", "cleanup", "job_pop"}
                      /\ Len(build_queue') = Len(build_queue) - 1
                 ELSE wk'[w].pc = "job_pop" /\ build_queue' = build_queue
            /\ wk[w].pc \in BuildPcs => wk'[w].pc \in BuildPcs \cup {"job_pop"}
       /\ Len(job_queue') < Len(job_queue) =>
            \E w \in Workers : wk[w].pc = "job_pop" /\ WorkerStep(w)
       /\ Len(build_queue') < Len(build_queue) =>
            \E w \in Workers : wk[w].pc = "build_pop" /\ WorkerStep(w)]_vars

\* A worker is handling a build while a job waits, and a job has been handled
\* before.
C17_Witness ==
    /\ \E w \in Workers : wk[w].pc = "build_start"
    /\ job_queue # <<>>
    /\ \E r \in submissions : r.status \in Terminal

\* The job id a queued job payload names.
IdAt(i) == job_queue[i][2].job_id

\* C18: each queue is first in, first out.  A push adds its payload at one end and
\* leaves the others in place; a pop on a queue that holds payloads takes the one
\* at the other end, which of all the queued payloads was pushed first (for jobs:
\* the lowest job id, ids being given in the order of the submits), and leaves the
\* others in place; a pop on an empty queue takes nothing, changes nothing, and
\* the worker goes on.
C18_Fifo ==
    /\ [](\A i, j \in 1..Len(job_queue) : i < j => IdAt(i) > IdAt(j))
    /\ [][/\ \A w \in Workers : WorkerStep(w) /\ wk[w].pc = "job_pop" =>
               IF job_queue = <<>>
               THEN job_queue' = job_queue /\ wk'[w].pc = "build_pop" /\ wk'[w].p = <<>>
               ELSE /\ wk'[w].p = <<job_queue[Len(job_queue)][2]>>
                    /\ \A i \in 1..Len(job_queue) : Val(wk'[w].p).job_id <= IdAt(i)
                    /\ job_queue' = [i \in 1..(Len(job_queue) - 1) |-> job_queue[i]]
          /\ \A w \in Workers : WorkerStep(w) /\ wk[w].pc = "build_pop" =>
               IF build_queue = <<>>
               THEN build_queue' = build_queue /\ wk'[w].pc = "job_pop" /\ wk'[w].p = <<>>
               ELSE /\ wk'[w].p = <<build_queue[Len(build_queue)][2]>>
                    /\ build_queue' = [i \in 1..(Len(build_queue) - 1) |-> build_queue[i]]
          /\ Len(job_queue') > Len(job_queue) =>
               /\ Len(job_queue') = Len(job_queue) + 1
               /\ \A i \in 1..Len(job_queue) : job_queue'[i + 1] = job_queue[i]
          /\ Len(build_queue') > Len(build_queue) =>
               /\ Len(build_queue') = Len(build_queue) + 1
               /\ \A i \in 1..Len(build_queue) : build_queue'[i + 1] = build_queue[i]]_vars

\* Three jobs were pushed; a worker has popped the first, the other two wait.
C18_Witness ==
    /\ Len(job_queue) = 2 /\ IdAt(1) = 3 /\ IdAt(2) = 2
    /\ \E w \in Workers : wk[w].pc = "run_start" /\ Val(wk[w].p).job_id = 1

\* C19: no exception raised while a worker handles a payload ends its loop: in
\* every reachable state every worker is still in its loop.
C19_LoopSurvives == \A w \in Workers : wk[w].pc # "crashed"

\* The runtime of a language can be used: it exists, is enabled and is ready.
Usable(language) ==
    \E r \in compilers : r.id = language /\ r.enabled = TRUE /\ r.build_status = "ready"
Unavailable(language) ==
    <<"Compiler for language '", language, "' is not available or not ready">>

\* C20: a worker launches the sandbox for a job only if, when it fetches the
\* runtime of the job's language, that runtime exists, is enabled and is ready;
\* otherwise it goes straight to the write of the result, which sets the
\* submission's status to ERROR, its stderr to the "not available or not ready"
\* message and completed_at to the time of the write.
C20_RuntimeUnavailable ==
    [][\A w \in Workers : WorkerStep(w) =>
          /\ wk[w].pc = "run_config" /\ ~Usable(Val(wk[w].p).language) =>
               /\ wk'[w].pc = "run_write"
               /\ Val(wk'[w].res).kind = "error"
               /\ Val(wk'[w].res).stderr = <<Unavailable(Val(wk[w].p).language)>>
               /\ wk'[w].cfg = <<>>
          /\ wk'[w].pc = "run_exec" =>
               wk[w].pc = "run_config" /\ Usable(Val(wk[w].p).language)
          /\ wk[w].pc = "run_write" /\ Val(wk[w].res).kind = "error" =>
               \E r \in submissions' :
                  /\ r.job_id = Val(wk[w].p).job_id
                  /\ r.status = "ERROR"
                  /\ r.output_stderr = Val(wk[w].res).stderr
                  /\ r.completed_at = <<now>>]_vars

\* A job accepted for a runtime that was then disabled has ended in ERROR.
C20_Witness ==
    /\ \E r \in submissions :
         /\ r.status = "ERROR" /\ r.completed_at # <<>>
         /\ r.output_stderr =
              <<(<<"Compiler for language '", r.language, "' is not available or not ready">>)>>
    /\ \E c \in compilers : c.enabled = FALSE /\ c.build_status = "ready"

\* C21: the configuration a worker fetches for a job carries the timeout_seconds of
\* the runtime row as it is at the fetch; when the sandboxed run then exceeds that
\* timeout, the worker's write leaves the submission with status = TIMEOUT, stderr
\* = "Execution timed out after <n> seconds." with n the fetched timeout_seconds,
\* and completed_at set to the time of the write.
C21_Timeout ==
    [][\A w \in Workers : WorkerStep(w) =>
          /\ wk[w].pc = "run_config" /\ wk'[w].pc = "run_exec" =>
               \E c \in compilers :
                  /\ c.id = Val(wk[w].p).language
                  /\ Val(wk'[w].cfg).timeout_seconds = c.timeout_seconds
          /\ wk[w].pc = "run_write" /\ Val(wk[w].res).kind = "timeout" =>
               \E r \in submissions' :
                  /\ r.job_id = Val(wk[w].p).job_id
                  /\ r.status = "TIMEOUT"
                  /\ r.output_stderr =
                       <<(<<"Execution timed out after ",
                            Val(wk[w].cfg).timeout_seconds, " seconds.">>)>>
                  /\ r.completed_at = <<now>>]_vars

\* A job of a runtime whose timeout_seconds had been updated to 2 has timed out.
C21_Witness ==
    \E r \in submissions :
        /\ r.status = "TIMEOUT" /\ r.completed_at # <<>>
        /\ r.output_stderr = <<(<<"Execution timed out after ", 2, " seconds.">>)>>

\* The options of a sandbox invocation: what stands between "docker run" and the
\* image, the image being followed by the argv.
Options(c, argv) == [i \in 1..(Len(c) - Len(argv) - 3) |-> c[i + 2]]
SandboxFlags(cfg) ==
    {<<"--runtime=runsc">>, <<"--rm">>, <<"--network=none">>,
     <<"--memory=", cfg.memory_limit>>, <<"--cpus=", cfg.cpu_limit>>,
     <<"--read-only">>, <<"-i">>, <<"-w">>}

\* C22: the configuration a worker fetches for a job carries the memory_limit,
\* cpu_limit, image_tag and run_command of the runtime row as it is at the fetch;
\* the one sandbox invocation the worker then makes is "docker run", options,
\* image, argv, where the options hold every one of --runtime=runsc, --rm,
\* --network=none, --memory=<memory_limit>, --cpus=<cpu_limit>, --read-only, -i and
\* -w followed by /sandbox, the image is the fetched image_tag and the argv is the
\* fetched run_command.
C22_SandboxFlags ==
    [][\A w \in Workers : WorkerStep(w) =>
          /\ wk[w].pc = "run_config" /\ wk'[w].pc = "run_exec" =>
               \E c \in compilers :
                  /\ c.id = Val(wk[w].p).language
                  /\ Val(wk'[w].cfg).memory_limit = c.memory_limit
                  /\ Val(wk'[w].cfg).cpu_limit = c.cpu_limit
                  /\ Val(wk'[w].cfg).image_tag = c.image_tag
                  /\ Val(wk'[w].cfg).run_command = c.run_command[2]
          /\ wk[w].pc = "run_exec" =>
               LET cfg == Val(wk[w].cfg)
                   c == Val(wk'[w].cmd)
                   n == Len(c) - Len(cfg.run_command)
                   opts == Options(c, cfg.run_command)
               IN  /\ wk'[w].cmd # <<>>
                   /\ n >= 3
                   /\ c[1] = <<"docker">> /\ c[2] = <<"run">>
                   /\ \A f \in SandboxFlags(cfg) : \E i \in 1..Len(opts) : opts[i] = f
                   /\ \E i \in 1..(Len(opts) - 1) :
                        opts[i] = <<"-w">> /\ opts[i + 1] = <<"/sandbox">>
                   /\ c[n] = cfg.image_tag
                   /\ \A i \in 1..Len(cfg.run_command) :
                        c[n + i] = <<cfg.run_command[i]>>
          /\ wk'[w].cmd # wk[w].cmd => wk[w].pc \in {"run_exec", "run_write"}]_vars

\* A worker has launched the sandbox for a job of a runtime whose memory_limit had
\* been updated to 256m.
C22_Witness ==
    \E w \in Workers :
        /\ wk[w].pc = "run_write" /\ wk[w].cmd # <<>>
        /\ \E i \in 1..Len(Val(wk[w].cmd)) : Val(wk[w].cmd)[i] = <<"--memory=", "256m">>

\* What a worker step records as an error: the message of the exception.
RaisedAt(w) == wk'[w].pc = "run_write" /\ Val(wk'[w].res).kind = "error"

AsciiSafe ==
    {Uppers[i] : i \in 1..26} \cup {Lowers[i] : i \in 1..26} \cup Digits \cup {".", "_", "-"}
IsGenerated(name) ==
    /\ Len(name) = 13
    /\ SubSeq(name, 1, 5) = <<"f", "i", "l", "e", "_">>
    /\ \A i \in 6..13 : name[i] \in Digits \cup {"a", "b", "c", "d", "e", "f"}

\* C27, as the claim states it: the sanitizer gives the declared name with every
\* character outside [A-Za-z0-9._-], "/" included, replaced by "_", and a
\* generated file_<8 hex> name only when that is empty or "."; "../etc/passwd"
\* gives ".._etc_passwd".
C27_SanitizeEveryChar ==
    san.fn = "_sanitize_filename" =>
        LET n == san.filename
            mapped == [i \in 1..Len(n) |-> IF n[i] \in AsciiSafe THEN n[i] ELSE "_"]
        IN  IF mapped = <<>> \/ mapped = <<".">>
            THEN IsGenerated(Val(san.ret))
            ELSE Val(san.ret) = mapped

\* C27, amended: the sanitizer first drops everything up to and including the last
\* "/" of the declared name; of what is left it keeps the characters that are
\* alphanumeric (in any script) or one of ".", "-", "_", and replaces every other
\* character by "_"; it gives a generated file_<8 hex> name exactly when that
\* result is empty or ".".  So "../etc/passwd" gives "passwd".
C27_SanitizeBasename ==
    san.fn = "_sanitize_filename" =>
        LET n == san.filename
        IN  \E k \in 0..Len(n) :
               /\ k = 0 \/ n[k] = "/"
               /\ \A i \in (k + 1)..Len(n) : n[i] # "/"
               /\ LET mapped == [i \in 1..(Len(n) - k) |->
                                    IF \/ n[k + i] \in AsciiSafe
                                       \/ n[k + i] = "U+00E9"
                                    THEN n[k + i] ELSE "_"]
                  IN  IF mapped = <<>> \/ mapped = <<".">>
                      THEN IsGenerated(Val(san.ret))
                      ELSE Val(san.ret) = mapped

\* The sanitizer has been applied to "../etc/passwd" and has given "passwd".
C27_Witness ==
    /\ san.fn = "_sanitize_filename"
    /\ san.filename = <<".", ".", "/", "e", "t", "c", "/", "p", "a", "s", "s", "w", "d">>
    /\ san.ret = <<(<<"p", "a", "s", "s", "w", "d">>)>>

\* The end of the staging of slot s: it raises, or returns to submit_code.
StagingEnds(s) ==
    /\ api[s].pc \in {"stage", "stage_file"}
    /\ api'[s].pc \notin {"stage", "stage_file"}
RECURSIVE TotalSize(_)
TotalSize(files) ==
    IF files = <<>> THEN 0 ELSE files[1].size + TotalSize(Tail(files))
Whitelisted(files) ==
    \A i \in 1..Len(files) : Lower(Suffix(files[i].filename)) \in ALLOWED_EXTENSIONS

\* C24: staging a list of files whose names all have whitelisted extensions, when
\* no read or write fails, returns to the submit if and only if the list has at
\* most 10 files, every file has at least 1 byte and the sizes sum to at most
\* 26214400; a list of more than 10 files is refused with TooManyFiles, a list of
\* at most 10 non-empty files summing to more with SizeLimitExceeded, a list of at
\* most 10 files within the sum with a zero-byte file with EmptyFile.
C24_StagingLimits ==
    [][\A s \in Slots :
          /\ StagingEnds(s) /\ Whitelisted(api[s].arg.files)
          /\ ~(Returns(s) /\ last'.st = "SaveFailed")
          => LET files == api[s].arg.files
                 n == Len(files)
                 empty == \E i \in 1..n : files[i].size = 0
                 sum == TotalSize(files)
             IN  /\ api'[s].pc = "commit" <=> n <= 10 /\ ~empty /\ sum <= 26214400
                 /\ api'[s].pc # "commit" => Returns(s)
                 /\ n > 10 => last'.st = "TooManyFiles"
                 /\ n <= 10 /\ ~empty /\ sum > 26214400 => last'.st = "SizeLimitExceeded"
                 /\ n <= 10 /\ empty /\ sum <= 26214400 => last'.st = "EmptyFile"
                 /\ n <= 10 /\ empty /\ sum > 26214400 =>
                      last'.st \in {"EmptyFile", "SizeLimitExceeded"}]_vars

\* Ten files of 2621440 bytes each, 26214400 bytes in all, have been staged and
\* the submission is committed with them.
C24_Witness ==
    \E r \in submissions :
        /\ r.uploaded_files # <<>>
        /\ LET meta == Val(r.uploaded_files)[2]
           IN  Len(meta) = 10 /\ \A i \in 1..10 : meta[i].size = 2621440
        /\ r.files_directory = <<(<<"/tmp/executor_jobs", r.job_id>>)>>

StagingErrors ==
    {"TooManyFiles", "EmptyFile", "SizeLimitExceeded", "ExtensionNotAllowed", "SaveFailed"}

\* C25: whenever a submit returns with a staging error (too many files, an empty
\* file, the size limit, an extension outside the whitelist, a failed read or
\* write), whatever had been written before, neither the job directory of its
\* job_id nor anything below it is on the disk.
C25_AllOrNothing ==
    [][\A s \in Slots :
          StepOf(s, "submit") /\ Returns(s) /\ last'.st \in StagingErrors =>
             \A p \in disk' : ~(p[1] = "/tmp/executor_jobs" /\ p[2] = Val(api[s].aux))]_vars

\* A staging that had written its first file has failed on the second, and the
\* disk holds nothing.
C25_Witness ==
    /\ last.op = "submit" /\ last.st \in {"EmptyFile", "ExtensionNotAllowed"}
    /\ Len(last.arg.files) >= 2
    /\ last.arg.files[1].size > 0
    /\ Lower(Suffix(last.arg.files[1].filename)) \in ALLOWED_EXTENSIONS
    /\ disk = {}

\* The extension of a name: its final suffix, lowercased.
Extension(name) ==
    LET dots == {i \in 1..Len(name) : name[i] = "."}
    IN  IF dots = {} THEN <<>>
        ELSE Lower(SubSeq(name, CHOOSE i \in dots : \A j \in dots : j <= i, Len(name)))

\* C26: every name under which staging has written a file has no "/" in it and
\* has an extension, its final suffix lowercased, that is in the whitelist.
C26_StagedNames ==
    \A s \in Slots : api[s].up # <<>> =>
        \A i \in 1..Len(Val(api[s].up).meta) :
            LET name == Val(api[s].up).meta[i].filename
            IN  /\ \A k \in 1..Len(name) : name[k] # "/"
                /\ Extension(name) \in ALLOWED_EXTENSIONS

\* C23: when a worker launches the sandbox for a job whose submission has a
\* files_directory, the invocation bind-mounts that directory at /data (-v
\* <files_directory>:/data, read-only or not); for a submission without one the
\* invocation mounts nothing at /data.
C23_DataMount ==
    [][\A w \in Workers : WorkerStep(w) /\ wk[w].pc = "run_exec" =>
          LET c == Val(wk'[w].cmd)
              row == CHOOSE r \in submissions : r.job_id = Val(wk[w].p).job_id
              mounts == {i \in 1..(Len(c) - 1) :
                           /\ c[i] = <<"-v">>
                           /\ c[i + 1][Len(c[i + 1])] \in {":/data", ":/data:ro"}}
          IN  IF row.files_directory # <<>>
              THEN \E i \in mounts : c[i + 1][1] = Val(row.files_directory)
              ELSE mounts = {}]_vars

\* The ids of the curated templates, of the rows of a store, of a list of ids.
CuratedIds == {"python-3.12", "python-3.11-data", "nodejs-20"}
IdsOf(rows) == {r.id : r \in rows}
Listed(ids) == {ids[i] : i \in 1..Len(ids)}
RunEnds == seed.pc = "loop" /\ seed'.pc = "idle"
FirstRunClean ==
    /\ Len(seed.returned) = 1
    /\ seed.returned[1].errors = <<>>

\* C28: no step of a seeder run removes or changes a row that is in the store,
\* whatever the store the run starts from; and a run that follows a first run
\* which returned without errors leaves the store as it is and returns with
\* added empty and, when it meets no error itself, with every curated id in
\* skipped.
C28_SeedIdempotent ==
    [][/\ \A r \in templates : r \in templates'
       /\ FirstRunClean => templates' = templates
       /\ FirstRunClean /\ RunEnds =>
            /\ seed'.returned[2].added = <<>>
            /\ seed'.returned[2].errors = <<>> =>
                 Listed(seed'.returned[2].skipped) = CuratedIds]_vars

\* Two runs have returned without errors: the first added the one curated template
\* that was missing and left an edited one alone, the second skipped all three.
C28_Witness ==
    /\ Len(seed.returned) = 2
    /\ seed.returned[1].errors = <<>> /\ seed.returned[1].added = <<"nodejs-20">>
    /\ seed.returned[2].errors = <<>> /\ seed.returned[2].added = <<>>
    /\ Len(seed.returned[2].skipped) = 3
    /\ \E r \in templates : r.id = "python-3.12" /\ r.name = "edited"
    /\ \E r \in templates : r.id = "nodejs-20" /\ r.name = "Node.js 20 LTS"

\* C29: when a seeder run returns, either every curated template that was absent
\* before the run is in the store or none of them is, and the ids in the returned
\* added are exactly the ids the run has inserted.
C29_SeedAtomic ==
    [][RunEnds =>
          LET absent == CuratedIds \ IdsOf(templates)
              inserted == IdsOf(templates') \ IdsOf(templates)
          IN  /\ inserted = absent \/ inserted = {}
              /\ Listed(seed'.returned[Len(seed'.returned)].added) = inserted]_vars

\* The image a ready runtime is served from: one under the row's image_tag, built
\* from the dockerfile_content the row holds.
ImageOfRow(r) == [tag |-> r.image_tag, content |-> r.dockerfile_content]

\* C31: once every build payload has been handled and nothing is in flight, each
\* runtime whose build_status is ready has an image under its image_tag that was
\* built from the dockerfile_content now stored in its row, with several workers.
C31_BuiltFromStoredRecipe ==
    Quiet => \A r \in compilers : r.build_status = "ready" => ImageOfRow(r) \in images

\* C32: once the builds queue is empty and nothing is in flight, each runtime row
\* whose build_status is ready has an image under its image_tag: the cleanup that
\* a delete has queued does not take the image of a row created again under the
\* same id and built.
C32_ReadyHasImage ==
    Quiet => \A r \in compilers : r.build_status = "ready" => HasImage(r.image_tag)

\* C33: once every payload of the builds queue has been handled and nothing is in
\* flight, no image is left under the image tag of an id that has no runtime row,
\* with docker rmi doing its work and several workers.
C33_NoImageWithoutRow ==
    Quiet => \A id \in Ids : ~HasCompiler(id) => ~HasImage(ImageTag(id))

\* C34: a runtime's build_status becomes building only from pending, never from
\* ready or failed, and no two workers are inside the build of the same runtime
\* at the same time.
C34_BuildingOnlyFromPending ==
    [][LET Building(w) == wk[w].pc \in {"build_load", "build_exec", "build_write"}
       IN  /\ \A id \in Ids :
                 /\ Exists(id) /\ ExistsAfter(id)
                 /\ RowAfter(id).build_status = "building"
                 /\ RowOf(id).build_status # "building"
                 => RowOf(id).build_status = "pending"
           /\ \A w1, w2 \in Workers :
                 w1 # w2 /\ Building(w1) /\ Building(w2) => BuildId(w1) # BuildId(w2)]_vars

\* The payloads of job j waiting in the jobs queue, the workers handling job j,
\* and the submits that have committed job j and not yet pushed it.
QueuedAt(j) == {i \in 1..Len(job_queue) : JsonLoads(job_queue[i]).job_id = j}
Handling(j) == {w \in Workers : wk[w].pc \in RunPcs /\ JobId(w) = j}
Pushing(j) == {s \in Slots : api[s].op = "submit" /\ api[s].pc = "push" /\ api[s].aux = Some(j)}

\* C37: with several workers popping, every job is handled by one worker, once.
\* A PENDING submission is either about to be pushed, or waiting once in the
\* queue, or held by one worker that has just popped it; a RUNNING submission is
\* held by exactly one worker and is not in the queue; a submission whose results
\* are written is neither in the queue nor held by any worker.
C37_HandledOnce ==
    \A r \in submissions :
        LET held == Cardinality(QueuedAt(r.job_id)) + Cardinality(Handling(r.job_id))
        IN  /\ r.status = "PENDING" =>
                 /\ held + Cardinality(Pushing(r.job_id)) = 1
                 /\ \A w \in Handling(r.job_id) : wk[w].pc = "run_start"
            /\ r.status = "RUNNING" =>
                 /\ QueuedAt(r.job_id) = {}
                 /\ Cardinality(Handling(r.job_id)) = 1
                 /\ \A w \in Handling(r.job_id) : wk[w].pc # "run_start"
            /\ r.status \in Terminal => held = 0

\* One job is finished and the two workers are running the two other jobs.
C37_Witness ==
    /\ \E r \in submissions : r.status \in Terminal
    /\ \E w1, w2 \in Workers :
         /\ w1 # w2 /\ wk[w1].pc = "run_write" /\ wk[w2].pc = "run_write"
         /\ JobId(w1) # JobId(w2)
         /\ SubmissionRow(JobId(w1)).status = "RUNNING"
         /\ SubmissionRow(JobId(w2)).status = "RUNNING"

\* The files that are in the directory of job j.
FilesIn(j) == {p \in disk' : Len(p) = 4 /\ p[1] = EXECUTOR_JOBS_DIR /\ p[2] = j}

\* C38: when staging returns its metadata list, the job directory holds exactly
\* one file per record, each under the record's filename and of the record's
\* size, also when two declared names sanitize to the same name.
C38_OneFilePerRecord ==
    [][\A s \in Slots : StagingEnds(s) /\ api'[s].pc = "commit" =>
          LET meta == Val(api'[s].up).meta
              j == Val(api[s].aux)
          IN  /\ Cardinality(FilesIn(j)) = Len(meta)
              /\ \A i \in 1..Len(meta) :
                    <<EXECUTOR_JOBS_DIR, j, meta[i].filename, meta[i].size>> \in FilesIn(j)]_vars

\* C39: every job directory on the disk belongs to a submission row whose
\* files_directory is that directory, once no submit is in progress; and a
\* submit that returns an error, the failed insert of the row after the staging
\* included, leaves no directory for its job_id and nothing below it.
C39_NoOrphanDirectory ==
    [][/\ (\A s \in Slots : api'[s].op # "submit") =>
             \A p \in disk' : Len(p) = 2 =>
                 \E r \in submissions' : r.files_directory = Some(p)
       /\ \A s \in Slots :
             StepOf(s, "submit") /\ Returns(s) /\ last'.st # "ok" /\ api[s].aux # Null =>
                 \A p \in disk' : p[2] # Val(api[s].aux)]_vars

\* C35: with requests and workers that keep going, a runtime whose build_status
\* is pending or building is eventually ready or failed, or deleted.
C35_BuildEnds ==
    \A id \in Ids :
        (\E r \in compilers : r.id = id /\ r.build_status \in {"pending", "building"})
        ~> (\A r \in compilers : r.id = id => r.build_status \in {"ready", "failed"})

\* An update with a new build_recipe has returned, its build payload has been
\* handled and nothing is in flight: the runtime is out of pending and building.
C35_Witness ==
    /\ Quiet
    /\ last.op = "update" /\ last.st = "ok" /\ SetsRecipeOrCommand(last.arg)
    /\ \E r \in compilers :
         /\ r.id = last.id /\ r.build_status \in {"ready", "failed"}
         /\ r.dockerfile_content = "FROM b"

\* C36: with requests and workers that keep going, an accepted submission, one
\* whose row is in the store as PENDING or RUNNING, eventually is COMPLETED,
\* TIMEOUT or ERROR, whatever is done to its runtime meanwhile.
C36_JobEnds ==
    \A j \in 1..MaxRequests :
        (\E r \in submissions : r.job_id = j /\ r.status \in {"PENDING", "RUNNING"})
        ~> (\E r \in submissions : r.job_id = j /\ r.status \in Terminal)

\* A submission has ended while its runtime, updated after the submit was
\* accepted, has been built again.
C36_Witness ==
    /\ Quiet /\ job_queue = <<>>
    /\ \E r \in submissions : r.status \in Terminal
    /\ last.op = "update" /\ last.st = "ok" /\ SetsRecipeOrCommand(last.arg)

====
